---- MODULE Spec2Model ----
(***************************************************************************)
(* Verification model of ScaleHLS: the band-state predicates of the        *)
(* multiple-level DSE optimizer (HLSCppOptimizer), the loop-tiling and     *)
(* trial-acceptance state machine it drives, and the HLS C++ emitter       *)
(* (HLSCppEmitterState / HLSCppEmitterBase / ModuleEmitter).               *)
(***************************************************************************)
EXTENDS Integers, Sequences, FiniteSets, TLC

VARIABLES
    \* ---- HLSCppOptimizer band-state predicates -------------------------
    bandState,        \* the BandState vector handed to the predicates
    bandCalled,       \* which of the three predicates have been evaluated
    frozenRes,        \* result of loopBandIsFrozen(bandState)
    coldRes,          \* result of loopBandIsColdOrFrozen(bandState)
    oneHotRes,        \* result of loopBandIsOneHot(bandState)
    \* ---- emitHLSCpp: one emission run ----------------------------------
    state,            \* HLSCppEmitterState (os, encounteredError,
                      \* currentIndent, nameTable) and the diagnostics
                      \* handed to the MLIR diagnostic engine
    prog,             \* the operations walked so far, in emission order
    stack,            \* open blocks: the function body and loop bodies
    pending,          \* returned values declared in the signature whose
                      \* defining operation has not been walked yet
    nvals,            \* number of IR values created so far
    pc,               \* "idle" | "module" | "body" | "done" | "aborted"
    ndebug,           \* the build: TRUE when NDEBUG compiles assert() out
    result,           \* LogicalResult of emitHLSCpp: "none"|"success"|"failure"
    \* ---- applyMultipleLevelDSE: the per-band search --------------------
    numDSP,           \* HLSCppOptimizer::numDSP, the DSP budget
    bands,            \* per band: tripCounts, tileSizes, bandState, the
                      \* positions rejected at the current tile sizes, the
                      \* best estimate so far and the accepted trials
    cur,              \* the band being searched
    dsePc,            \* "idle" | "start" | "search" | "done"
    \* ---- tile(loop, factor) and the enumeration of the tiled pair ------
    tripN,            \* trip count N of the loop
    factor,           \* tile factor F
    outerTrip,        \* trip count of the outer loop after tiling
    outerIv,          \* induction variable of the outer loop
    innerIv,          \* induction variable of the inner loop
    visited,          \* original iteration indices visited so far
    tilePc,           \* "idle" | "loop" | "run" | "done"
    \* ---- ConvertToHLSCpp::runOnOperation on one function --------------
    annIn,            \* the function handed to the pass (kept for reference)
    annOps,           \* the operations of the function, in program order
    annDataflow,      \* the function's dataflow attribute
    annDataflowIn,    \* the dataflow attribute the function came with
    annRun,           \* which run of the pass on the function this is
    annTodo,          \* operations func.walk has still to visit
    annNext,          \* id of the next operation a builder creates
    annErrs,          \* diagnostics emitted by the pass
    annPc             \* "idle" | "start" | "walk" | "done"

bandVars == <<bandState, bandCalled, frozenRes, coldRes, oneHotRes>>

emitVars == <<state, prog, stack, pending, nvals, pc, ndebug, result>>

dseVars == <<numDSP, bands, cur, dsePc>>

tileVars == <<tripN, factor, outerTrip, outerIv, innerIv, visited, tilePc>>

annVars == <<annIn, annOps, annDataflow, annDataflowIn, annRun, annTodo,
            annNext, annErrs, annPc>>

vars == <<bandState, bandCalled, frozenRes, coldRes, oneHotRes,
          state, prog, stack, pending, nvals, pc, ndebug, result,
          numDSP, bands, cur, dsePc,
          tripN, factor, outerTrip, outerIv, innerIv, visited, tilePc,
          annIn, annOps, annDataflow, annDataflowIn, annRun, annTodo,
          annNext, annErrs, annPc>>

(***************************************************************************)
(* HLSCppOptimizer::LoopState and the three band predicates.               *)
(***************************************************************************)
HOT == 0
COLD == 1
FROZEN == 2

LoopState == {HOT, COLD, FROZEN}

\* Longest band-state vector enumerated.
MaxBandLen == 4

BandStates == UNION {[1..n -> LoopState] : n \in 0..MaxBandLen}

\* for (auto loopState : bandState) if (loopState != FROZEN) return false;
\* return true;
RECURSIVE FrozenFrom(_, _)
FrozenFrom(bs, i) ==
    IF i > Len(bs) THEN TRUE
    ELSE IF bs[i] # FROZEN THEN FALSE
    ELSE FrozenFrom(bs, i + 1)

\* Mutant: true as soon as one element is FROZEN.
loopBandIsFrozenAny(bs) == \E i \in 1..Len(bs) : bs[i] = FROZEN

loopBandIsFrozen(bs) == FrozenFrom(bs, 1)

\* for (auto loopState : bandState) if (loopState == HOT) return false;
\* return true;
RECURSIVE ColdOrFrozenFrom(_, _)
ColdOrFrozenFrom(bs, i) ==
    IF i > Len(bs) THEN TRUE
    ELSE IF bs[i] = HOT THEN FALSE
    ELSE ColdOrFrozenFrom(bs, i + 1)

loopBandIsColdOrFrozen(bs) == ColdOrFrozenFrom(bs, 1)

\* unsigned hotNum = 0; for (...) if (loopState == HOT) hotNum++;
RECURSIVE HotNumFrom(_, _)
HotNumFrom(bs, i) ==
    IF i > Len(bs) THEN 0
    ELSE (IF bs[i] = HOT THEN 1 ELSE 0) + HotNumFrom(bs, i + 1)

\* Mutant: "any position hot" instead of "exactly one position hot".
loopBandIsOneHotAtLeast(bs) == HotNumFrom(bs, 1) >= 1

\* if (hotNum == 1) return true; else return false;
loopBandIsOneHot(bs) == HotNumFrom(bs, 1) = 1

(***************************************************************************)
(* IR values and operations, as the emitter reads them.                    *)
(* A Value is a record: id (identity), shape (<<>> for a scalar, one       *)
(* extent per dimension for a ShapedType, -1 a dynamic extent), elem       *)
(* (element type), mem (MemoryKind of a memref), factors (partition factor *)
(* per dimension of the layout map, <<>> when there is no layout map),     *)
(* block (per dimension: its layout expression is a floordiv), arg (a block*)
(* argument, without defining operation), const / cval / attr (result of  *)
(* a ConstantOp with a scalar attribute, its value and attribute kind).    *)
(***************************************************************************)
MemBRAM_1P == 0
MemBRAM_S2P == 1
MemBRAM_T2P == 2
MemDRAM == 3
MemNone == 4

Val(id, shape, elem, arg) ==
    [id |-> id, shape |-> shape, elem |-> elem, mem |-> MemNone,
     factors |-> <<>>, block |-> <<>>, arg |-> arg, const |-> FALSE,
     cval |-> 0, attr |-> "none"]

ConstVal(id, c) ==
    [id |-> id, shape |-> <<>>, elem |-> "index", mem |-> MemNone,
     factors |-> <<>>, block |-> <<>>, arg |-> FALSE, const |-> TRUE,
     cval |-> c, attr |-> "int"]

\* The result of a ConstantOp of scalar type elem whose value is a
\* FloatAttr (attr "float" for a finite value, "inf", "-inf", "nan"), an
\* IntegerAttr ("int") or a BoolAttr ("bool"); c is the number held, a
\* finite float being a whole number.
ScalarConst(id, elem, attr, c) ==
    [ConstVal(id, c) EXCEPT !.elem = elem, !.attr = attr]

isShaped(v) == v.shape # <<>>

hasStaticShape(v) == \A i \in 1..Len(v.shape) : v.shape[i] >= 0

\* An operation: kind (operation name), id (position in the walk),
\* operands and results (sequences of Values), and the attributes read by
\* the emitter: pipeline / target_ii of a loop, pred of a cmpf.
Op(kind, id, operands, results) ==
    [kind |-> kind, id |-> id, operands |-> operands, results |-> results,
     pipeline |-> 0, target_ii |-> 0, pred |-> "none"]

\* HLSCppAnalysisBase::getIntAttrValue: the integer held by the attribute,
\* 0 when the operation does not carry it.
getIntAttrValue(op, name) ==
    IF name = "pipeline" THEN op.pipeline
    ELSE IF name = "target_ii" THEN op.target_ii
    ELSE 0

(***************************************************************************)
(* HLSCppEmitterState and HLSCppEmitterBase.  The output stream os is a    *)
(* sequence of tokens [t, v, txt, role, op]:                               *)
(*   t = "decl"   a value written with its type prefix and added to the    *)
(*                name table (emitValue on an undeclared value),           *)
(*   t = "name"   a value written by its name (emitValue on a declared     *)
(*                value, or getName),                                      *)
(*   t = "indent" os.indent(currentIndent), v the number of blanks,        *)
(*   t = "text"   fixed text, t = "info" the trailer of                    *)
(*                emitInfoAndNewLine, t = "pipeline" the pipeline pragma   *)
(*                line, v its II.                                          *)
(* role says whether the call site passes a result being defined ("def")   *)
(* or an operand, index, argument or port being read ("use"); op is the id *)
(* of the operation whose handler wrote the token (0: the signature).      *)
(***************************************************************************)
Tok(t, v, txt, role, op) ==
    [t |-> t, v |-> v, txt |-> txt, role |-> role, op |-> op]

Put(st, tok) == [st EXCEPT !.os = Append(@, tok)]

Text(st, s, op) == Put(st, Tok("text", 0, s, "-", op))

EmptyState ==
    [os |-> <<>>, encounteredError |-> FALSE, currentIndent |-> 0,
     nameTable |-> <<>>, diags |-> <<>>]

\* op->emitError(message) / op.emitError(message): a diagnostic, nothing else.
opEmitError(st, opid, msg) ==
    [st EXCEPT !.diags = Append(@, [op |-> opid, msg |-> msg])]

\* HLSCppEmitterBase::emitError
emitError(st, opid, msg) ==
    opEmitError([st EXCEPT !.encounteredError = TRUE], opid, msg)

indent(st, op) == Put(st, Tok("indent", st.currentIndent, "", "-", op))

\* currentIndent is unsigned (32 bits); its bit pattern is held here as a
\* two's complement integer, so a negative k stands for 2^32 + k, the value
\* the counter wraps to when reduceIndent() takes it below zero.
addIndent(st) == [st EXCEPT !.currentIndent = @ + 2]

reduceIndent(st) == [st EXCEPT !.currentIndent = @ - 2]

\* DenseMap::lookup: the default-constructed (empty) string when absent.
lookup(tbl, v) == IF v \in DOMAIN tbl THEN tbl[v] ELSE ""

\* std::to_string of a finite double that is a whole number: "%f".
DoubleToString(c) == ToString(c) \o ".000000"

\* The branch of getName for the result of a scalar ConstantOp.
ConstantText(v) ==
    CASE v.attr = "float" -> DoubleToString(v.cval)
      [] v.attr = "inf" -> "INFINITY"
      [] v.attr \in {"-inf", "nan"} -> "-INFINITY"
      [] v.attr = "int" -> ToString(v.cval)
      [] v.attr = "bool" -> ToString(v.cval)

\* Mutant: a constant is looked up in the name table like any other value.
getNameFromTable(st, v) == lookup(st.nameTable, v)

\* HLSCppEmitterBase::getName
getName(st, v) ==
    IF v.const THEN ConstantText(v) ELSE lookup(st.nameTable, v)

isDeclared(st, v) == getName(st, v) # ""

\* DenseMap::operator[] followed by assignment.
TablePut(tbl, v, name) ==
    [x \in (DOMAIN tbl) \cup {v} |-> IF x = v THEN name ELSE tbl[x]]

\* Mutant: the counter in the name is the table size halved.
NewNameHalved(st, isPtr) ==
    (IF isPtr THEN "*" ELSE "")
        \o "val" \o ToString(Cardinality(DOMAIN st.nameTable) \div 2)

\* The text addName builds: "*" for a pointer, then "val" and the number of
\* entries of the name table.
NewName(st, isPtr) ==
    (IF isPtr THEN "*" ELSE "")
        \o "val" \o ToString(Cardinality(DOMAIN st.nameTable))

\* HLSCppEmitterBase::addName
addName(st, v, isPtr) ==
    [st EXCEPT !.nameTable = TablePut(@, v, NewName(st, isPtr))]

\* HLSCppEmitterBase::addAlias
addAlias(st, v, alias) ==
    [st EXCEPT !.nameTable = TablePut(@, alias, getName(st, v))]

(***************************************************************************)
(* ModuleEmitter: C++ component emitters.                                  *)
(***************************************************************************)
\* The type text emitValue writes before a new name; "" for a type it does
\* not support.
TypePrefix(elem) ==
    CASE elem = "f32" -> "float "
      [] elem = "f64" -> "double "
      [] elem = "index" -> "int "
      [] elem = "i1" -> "bool "
      [] elem = "i32" -> "ap_int<32> "
      [] elem = "ui32" -> "ap_uint<32> "
      [] OTHER -> ""

SupportedElem == {"f32", "f64", "index", "i1", "i32", "ui32"}

\* for (unsigned i = 0; i < rank; ++i) os << "[idx" << i << "]";
RECURSIVE IdxText(_, _)
IdxText(i, rank) ==
    IF i >= rank THEN ""
    ELSE "[idx" \o ToString(i) \o "]" \o IdxText(i + 1, rank)

\* ModuleEmitter::emitValue
emitValue(st, v, rank, isPtr, role, op) ==
    IF isDeclared(st, v)
    THEN Put(st, Tok("name", v.id, getName(st, v) \o IdxText(0, rank),
                     role, op))
    ELSE LET st1 == IF v.elem \in SupportedElem THEN st
                    ELSE emitError(st, op, "has unsupported type.")
         IN Put(addName(st1, v, isPtr),
                Tok("decl", v.id,
                    TypePrefix(v.elem) \o NewName(st1, isPtr)
                        \o IdxText(0, rank),
                    role, op))

\* for (auto &shape : arrayType.getShape()) os << "[" << shape << "]";
RECURSIVE ShapeText(_, _)
ShapeText(shape, i) ==
    IF i > Len(shape) THEN ""
    ELSE "[" \o ToString(shape[i]) \o "]" \o ShapeText(shape, i + 1)

\* ModuleEmitter::emitArrayDecl
emitArrayDecl(st, array, role, op) ==
    IF hasStaticShape(array)
    THEN Text(emitValue(st, array, 0, FALSE, role, op),
              ShapeText(array.shape, 1), op)
    ELSE emitValue(st, array, 0, TRUE, role, op)

\* ModuleEmitter::emitInfoAndNewLine
emitInfoAndNewLine(st, op) == Put(st, Tok("info", 0, "\t//\n", "-", op))

\* The loop of emitNestedLoopHead that opens one index loop per dimension.
RECURSIVE NestedLoopOpen(_, _, _, _)
NestedLoopOpen(st, shape, dimIdx, op) ==
    IF dimIdx >= Len(shape) THEN st
    ELSE NestedLoopOpen(
           addIndent(Text(indent(st, op),
                          "for (int idx" \o ToString(dimIdx) \o " = 0; idx"
                            \o ToString(dimIdx) \o " < "
                            \o ToString(shape[dimIdx + 1]) \o "; ++idx"
                            \o ToString(dimIdx) \o ") {\n", op)),
           shape, dimIdx + 1, op)

\* Mutant: no loop is opened, whatever the rank.
emitNestedLoopHeadNoLoop(st, v, op) == [st |-> st, rank |-> 0]

\* ModuleEmitter::emitNestedLoopHead: the state after it and the rank it
\* returns.
emitNestedLoopHead(st, v, op) ==
    IF ~isShaped(v) THEN [st |-> st, rank |-> 0]
    ELSE IF ~hasStaticShape(v)
    THEN [st |-> emitError(st, op, "is unranked or has dynamic shape."),
          rank |-> 0]
    ELSE LET st1 == IF isDeclared(st, v) THEN st
                    ELSE Text(emitArrayDecl(indent(st, op), v, "def", op),
                              ";\n", op)
         IN [st |-> NestedLoopOpen(st1, v.shape, 0, op),
             rank |-> Len(v.shape)]

\* ModuleEmitter::emitNestedLoopTail
RECURSIVE emitNestedLoopTail(_, _, _)
emitNestedLoopTail(st, rank, op) ==
    IF rank = 0 THEN st
    ELSE emitNestedLoopTail(Text(indent(reduceIndent(st), op), "}\n", op),
                            rank - 1, op)

\* The array_partition loop of emitArrayPragmas, dimension by dimension.
RECURSIVE PartitionPragmas(_, _, _, _)
PartitionPragmas(st, memref, dim, op) ==
    IF dim >= Len(memref.shape) THEN st
    ELSE IF memref.factors[dim + 1] # 1
    THEN PartitionPragmas(
           Text(emitValue(Text(indent(st, op),
                               "#pragma HLS array_partition variable=", op),
                          memref, 0, FALSE, "use", op),
                (IF memref.block[dim + 1] THEN " block" ELSE " cyclic")
                  \o " factor=" \o ToString(memref.factors[dim + 1])
                  \o " dim=" \o ToString(dim + 1) \o "\n", op),
           memref, dim + 1, op)
    ELSE PartitionPragmas(st, memref, dim + 1, op)

CoreText(kind) ==
    IF kind = MemBRAM_1P THEN "ram_1p_bram"
    ELSE IF kind = MemBRAM_S2P THEN "ram_s2p_bram"
    ELSE IF kind = MemBRAM_T2P THEN "ram_t2p_bram"
    ELSE "ram_s2p_bram"

\* ModuleEmitter::emitArrayPragmas
emitArrayPragmas(st, memref, op) ==
    LET res == memref.mem # MemDRAM /\ memref.mem # MemNone
        st1 == IF res
               THEN Text(emitValue(Text(indent(st, op),
                                        "#pragma HLS resource variable=", op),
                                   memref, 0, FALSE, "use", op),
                         " core=" \o CoreText(memref.mem) \o "\n", op)
               ELSE st
        lay == memref.factors # <<>>
        st2 == IF lay THEN PartitionPragmas(st1, memref, 0, op) ELSE st1
        flag == res \/ (lay /\ \E d \in 1..Len(memref.factors) :
                                   memref.factors[d] # 1)
    IN IF flag THEN Text(st2, "\n", op) ELSE st2

(***************************************************************************)
(* ModuleEmitter: statement, expression and IP emitters.  Each takes the   *)
(* emitter state and the operation and yields the state after the call.    *)
(***************************************************************************)
\* ModuleEmitter::emitAlloc
emitAlloc(st, op) ==
    LET r == op.results[1]
    IN IF isDeclared(st, r) THEN st
       ELSE LET st1 == IF ~hasStaticShape(r)
                       THEN emitError(st, op.id,
                                      "is unranked or has dynamic shape.")
                       ELSE st
            IN emitArrayPragmas(
                 emitInfoAndNewLine(
                   Text(emitArrayDecl(indent(st1, op.id), r, "def", op.id),
                        ";", op.id), op.id), r, op.id)

\* ModuleEmitter::emitDim (the index operand has a defining operation)
emitDim(st, op) ==
    LET a == op.operands[1]
        i == op.operands[2]
    IN IF i.const
       THEN IF hasStaticShape(a)
            THEN IF i.cval >= 0 /\ i.cval < Len(a.shape)
                 THEN emitInfoAndNewLine(
                        Text(emitValue(indent(st, op.id), op.results[1], 0,
                                       FALSE, "def", op.id),
                             " = " \o ToString(a.shape[i.cval + 1]) \o ";",
                             op.id), op.id)
                 ELSE emitError(st, op.id, "index is out of range.")
            ELSE emitError(st, op.id, "is unranked or has dynamic shape.")
       ELSE emitError(st, op.id, "index is not a constant.")

\* emitBinary after emitNestedLoopHead returned h (state and rank).
emitBinaryBody(h, op, syntax) ==
    LET s1 == emitValue(indent(h.st, op.id), op.results[1], h.rank, FALSE,
                        "def", op.id)
        s2 == emitValue(Text(s1, " = ", op.id), op.operands[1], h.rank,
                        FALSE, "use", op.id)
        s3 == emitValue(Text(s2, " " \o syntax \o " ", op.id),
                        op.operands[2], h.rank, FALSE, "use", op.id)
    IN emitNestedLoopTail(emitInfoAndNewLine(Text(s3, ";", op.id), op.id),
                          h.rank, op.id)

\* ModuleEmitter::emitBinary
emitBinary(st, op, syntax) ==
    emitBinaryBody(emitNestedLoopHead(st, op.results[1], op.id), op, syntax)

\* emitUnary after emitNestedLoopHead returned h.
emitUnaryBody(h, op, syntax) ==
    emitNestedLoopTail(
      emitInfoAndNewLine(
        Text(emitValue(
               Text(emitValue(indent(h.st, op.id), op.results[1], h.rank,
                              FALSE, "def", op.id),
                    " = " \o syntax \o "(", op.id),
               op.operands[1], h.rank, FALSE, "use", op.id),
             ");", op.id),
        op.id),
      h.rank, op.id)

\* ModuleEmitter::emitUnary
emitUnary(st, op, syntax) ==
    emitUnaryBody(emitNestedLoopHead(st, op.results[1], op.id), op, syntax)

\* emitSelect after emitNestedLoopHead returned h; operands are the
\* condition, the true value and the false value.
emitSelectBody(h, op, conditionRank) ==
    emitNestedLoopTail(
      emitInfoAndNewLine(
        Text(emitValue(
               Text(emitValue(
                      Text(emitValue(
                             Text(emitValue(indent(h.st, op.id),
                                            op.results[1], h.rank, FALSE,
                                            "def", op.id),
                                  " = ", op.id),
                             op.operands[1], conditionRank, FALSE, "use",
                             op.id),
                           " ? ", op.id),
                      op.operands[2], h.rank, FALSE, "use", op.id),
                    " : ", op.id),
               op.operands[3], h.rank, FALSE, "use", op.id),
             ";", op.id),
        op.id),
      h.rank, op.id)

\* The rank emitSelect subscripts the condition with.
SelectConditionRank(h, op) ==
    IF isShaped(op.operands[1]) THEN h.rank ELSE 0

\* ModuleEmitter::emitSelect
emitSelectFrom(h, op) == emitSelectBody(h, op, SelectConditionRank(h, op))

emitSelect(st, op) ==
    emitSelectFrom(emitNestedLoopHead(st, op.results[1], op.id), op)

\* emitAssign after emitNestedLoopHead returned h.
emitAssignBody(h, op) ==
    emitNestedLoopTail(
      emitInfoAndNewLine(
        Text(emitValue(
               Text(emitValue(indent(h.st, op.id), op.results[1], h.rank,
                              FALSE, "def", op.id),
                    " = ", op.id),
               op.operands[1], h.rank, FALSE, "use", op.id),
             ";", op.id),
        op.id),
      h.rank, op.id)

\* ModuleEmitter::emitAssign
emitAssign(st, op) ==
    emitAssignBody(emitNestedLoopHead(st, op.results[1], op.id), op)

\* ModuleEmitter::emitConstant.  pred = "dense" stands for a
\* DenseElementsAttr value, anything else for an attribute that is neither
\* scalar nor dense.
emitConstant(st, op) ==
    LET r == op.results[1]
    IN IF isDeclared(st, r) THEN st
       ELSE IF op.pred = "dense"
       THEN emitInfoAndNewLine(
              Text(emitArrayDecl(indent(st, op.id), r, "def", op.id),
                   " = {...};", op.id), op.id)
       ELSE emitError(st, op.id, "has unsupported constant type.")

\* The else branch of emitTensorToMemref after emitNestedLoopHead returned h.
emitTensorToMemrefCopy(h, op) ==
    LET s1 == emitValue(indent(h.st, op.id), op.results[1], h.rank, FALSE,
                        "def", op.id)
        s2 == emitValue(Text(s1, " = ", op.id), op.operands[1], h.rank,
                        FALSE, "use", op.id)
    IN emitNestedLoopTail(emitInfoAndNewLine(Text(s2, ";", op.id), op.id),
                          h.rank, op.id)

\* ModuleEmitter::emitTensorLoad: the statements of the first branch of
\* emitTensorToMemref, whatever the result.
emitTensorLoad(st, op) ==
    emitTensorToMemrefCopy(emitNestedLoopHead(st, op.results[1], op.id), op)

\* ModuleEmitter::emitTensorToMemref
emitTensorToMemref(st, op) ==
    IF isDeclared(st, op.results[1])
    THEN emitTensorToMemrefCopy(
           emitNestedLoopHead(st, op.results[1], op.id), op)
    ELSE emitArrayPragmas(addAlias(st, op.operands[1], op.results[1]),
                          op.results[1], op.id)

\* ModuleEmitter::emitAmaxIP
emitAmaxIP(st, op) ==
    LET p_x == op.operands[1]
        p_goldRes == op.operands[2]
        p_n == ToString(p_x.shape[1])
        dt == IF ~isShaped(p_x) /\ p_x.elem = "f64" THEN "double"
              ELSE "float"
        s1 == Text(st, "  #pragma HLS DATAFLOW\n  " \o dt \o " l_res;\n"
                       \o "  hls::stream<typename WideType<" \o dt
                       \o ", 1 << 2>::t_TypeInt> l_str;\n"
                       \o "  readVec2Stream<" \o dt \o ", 1 << 2>(", op.id)
        s2 == Put(s1, Tok("name", p_x.id, getName(s1, p_x), "use", op.id))
        s3 == Text(s2, ", " \o p_n \o ", l_str);\n  amax<" \o dt \o ", 2, "
                       \o dt \o ">(" \o p_n \o ", l_str, l_res);\n  ", op.id)
        s4 == Put(s3, Tok("name", p_goldRes.id, getName(s3, p_goldRes),
                          "use", op.id))
    IN Text(s4, " = l_res;\n", op.id)

\* os << getName(v) inside an IP template.
NameTok(st, v, op) == Put(st, Tok("name", v.id, getName(st, v), "use", op))

\* v.getType().isa<Float64Type>(): the type of the value itself, which for
\* a memref or tensor is the shaped type, not its element type.
IsFloat64Type(v) == ~isShaped(v) /\ v.elem = "f64"

\* The element type emitGemmIP reads before its test (getElementType of a
\* ShapedType): "double", "int" for index, else "float".
GemmDataType(v) ==
    IF v.elem = "f64" THEN "double"
    ELSE IF v.elem = "index" THEN "int"
    ELSE "float"

\* BLAS_dataType of the emitters that test the type of p_x itself.
BlasDataType(v) == IF IsFloat64Type(v) THEN "double" ELSE "float"

\* ModuleEmitter::emitScalIP
emitScalIP(st, op) ==
    LET p_alpha == op.operands[1]
        p_x == op.operands[2]
        p_xRes == op.operands[3]
        p_n == ToString(p_x.shape[1])
        dt == BlasDataType(p_x)
        s1 == Text(st, "  #pragma HLS DATAFLOW\n"
                       \o "  hls::stream<typename WideType<" \o dt
                       \o ", 4>::t_TypeInt> l_strX;\n"
                       \o "  hls::stream<typename WideType<" \o dt
                       \o ", 4>::t_TypeInt> l_strR;\n\n"
                       \o "  readVec2Stream<" \o dt \o ", 4>(", op.id)
        s2 == Text(NameTok(s1, p_x, op.id),
                   ", " \o p_n \o ", l_strX);\n  scal<" \o dt \o ", 4>("
                     \o p_n \o ", ", op.id)
        s3 == Text(NameTok(s2, p_alpha, op.id),
                   ", l_strX, l_strR);\n  writeStream2Vec<" \o dt
                     \o ", 4>(l_strR, " \o p_n \o ", ", op.id)
    IN Text(NameTok(s3, p_xRes, op.id), ");\n", op.id)

\* ModuleEmitter::emitGemmIP; the three stream declarations after the first
\* are written as the first is.
emitGemmIP(st, op) ==
    LET p_A == op.operands[3]
        p_B == op.operands[4]
        p_m == p_A.shape[1]
        p_k == p_A.shape[2]
        p_n == p_B.shape[2]
        dims == ToString(p_m) \o ", " \o ToString(p_n) \o ", "
                  \o ToString(p_k)
        dt == GemmDataType(p_A)
        decl == "  hls::stream<typename WideType<" \o dt
                  \o ", 4>::t_TypeInt> l_str"
        s1 == Text(st, "  #pragma HLS DATAFLOW\n" \o decl \o "A;\n" \o decl
                       \o "B;\n" \o decl \o "C;\n" \o decl \o "Sum;\n\n"
                       \o "  gemmMatAMover<" \o dt \o ", 4>(", op.id)
        s2 == Text(NameTok(s1, p_A, op.id),
                   ", " \o dims \o ", l_strA);\n  gemmMatBMover<" \o dt
                     \o ", 4>(", op.id)
        s3 == Text(NameTok(s2, p_B, op.id),
                   ", " \o dims \o ", l_strB);\n  readVec2Stream<" \o dt
                     \o ", 4>(", op.id)
        s4 == Text(NameTok(s3, op.operands[5], op.id),
                   ", " \o ToString(p_m * p_n) \o ", l_strC);\n  gemm<"
                     \o dt \o ", " \o ToString(p_k) \o ", 4, "
                     \o ToString(p_m * p_n) \o ">(" \o dims \o ", ", op.id)
        s5 == Text(NameTok(s4, op.operands[1], op.id),
                   ", l_strA, l_strB, ", op.id)
        s6 == Text(NameTok(s5, op.operands[2], op.id),
                   ", l_strC, l_strSum);\n  writeStream2Vec<" \o dt
                     \o ", 4>(l_strSum, " \o ToString(p_m * p_n) \o ", ",
                   op.id)
    IN Text(NameTok(s6, op.operands[6], op.id), ");\n", op.id)

\* One stream declaration of a BLAS template.
StreamDecl(dt, name) ==
    "  hls::stream<typename WideType<" \o dt \o ", 4>::t_TypeInt> " \o name
      \o ";\n"

\* ModuleEmitter::emitSwapIP: p_x, p_xRes, p_y and p_yRes are the operands
\* 0, 1, 2 and 3.
emitSwapIPOn(st, p_x, p_xRes, p_y, p_yRes, dt, p_n, opid) ==
    Text(NameTok(
           Text(NameTok(
                  Text(NameTok(
                         Text(NameTok(
                                Text(st,
                                     "  #pragma HLS DATAFLOW\n"
                                       \o StreamDecl(dt, "l_strX")
                                       \o StreamDecl(dt, "l_strResX")
                                       \o StreamDecl(dt, "l_strY")
                                       \o StreamDecl(dt, "l_strResY")
                                       \o "\n  readVec2Stream<" \o dt
                                       \o ", 4>(", opid),
                                p_x, opid),
                              ", " \o p_n \o ", l_strX);\n  readVec2Stream<"
                                \o dt \o ", 4>(", opid),
                         p_y, opid),
                       ", " \o p_n \o ", l_strY);\n  swap<" \o dt
                         \o ", 4>(" \o p_n
                         \o ", l_strX, l_strY, l_strResX, l_strResY);\n"
                         \o "  writeStream2Vec<" \o dt
                         \o ", 4>(l_strResX, " \o p_n \o ", ", opid),
                  p_xRes, opid),
                ");\n  writeStream2Vec<" \o dt \o ", 4>(l_strResY, "
                  \o p_n \o ", ", opid),
           p_yRes, opid),
         ");\n", opid)

emitSwapIP(st, op) ==
    emitSwapIPOn(st, op.operands[1], op.operands[2], op.operands[3],
                 op.operands[4], BlasDataType(op.operands[1]),
                 ToString(op.operands[1].shape[1]), op.id)

\* The position of p_x among the operands of the other BLAS primitives.
BlasXIndex(kind) ==
    IF kind \in {"hlskernel.amin", "hlskernel.asum", "hlskernel.dot",
                 "hlskernel.nrm2"} THEN 1
    ELSE IF kind = "hlskernel.axpy" THEN 2
    ELSE 4

\* emitAminIP, emitAsumIP, emitAxpyIP, emitDotIP, emitGbmvIP, emitGemvIP,
\* emitNrm2IP, emitSymvIP, emitTrmvIP, each reduced to what they
\* share: the dataflow pragma, a first stream declaration with the data
\* type taken from the type of p_x, the name of p_x handed to the reader,
\* and the call of the primitive.
emitBlasIP(st, op) ==
    LET p_x == op.operands[BlasXIndex(op.kind)]
        dt == BlasDataType(p_x)
        s1 == Text(st, "  #pragma HLS DATAFLOW\n"
                       \o "  hls::stream<typename WideType<" \o dt
                       \o ", 4>::t_TypeInt> l_strX;\n  readVec2Stream<"
                       \o dt \o ", 4>(", op.id)
    IN Text(NameTok(s1, p_x, op.id),
            ", " \o ToString(p_x.shape[1]) \o ", l_strX);\n  " \o op.kind
              \o "<" \o dt \o ">(...);\n", op.id)

\* ModuleEmitter::emitFFTIP
emitFFTIP(st, op) ==
    Text(NameTok(Text(NameTok(Text(st, "  xf::dsp::fft::fft<fftParams, 0>(",
                                   op.id),
                              op.operands[1], op.id), ", ", op.id),
                 op.operands[2], op.id), ");\n", op.id)

\* ModuleEmitter::emitPSqrtIP
emitPSqrtIP(st, op) ==
    LET matIn == op.operands[2]
        s1 == Text(st, "  xf::solver::pseudosqrt<"
                       \o (IF IsFloat64Type(matIn) THEN "double"
                           ELSE "float")
                       \o ", " \o ToString(matIn.shape[1]) \o ", 2>(", op.id)
        s2 == Text(NameTok(s1, op.operands[1], op.id), ", ", op.id)
        s3 == Text(NameTok(s2, matIn, op.id), ", ", op.id)
    IN Text(NameTok(s3, op.operands[3], op.id), ");\n", op.id)

\* The argument loop of emitIP.
RECURSIVE emitIPArgs(_, _, _)
emitIPArgs(st, op, i) ==
    IF i > Len(op.operands) THEN st
    ELSE emitIPArgs(
           IF i # Len(op.operands)
           THEN Text(emitValue(st, op.operands[i], 0, FALSE, "use", op.id),
                     ", ", op.id)
           ELSE emitValue(st, op.operands[i], 0, FALSE, "use", op.id),
           op, i + 1)

\* ModuleEmitter::emitIP; pred holds the name attribute.
emitIP(st, op) ==
    Text(emitIPArgs(Text(st, "  __IP__" \o op.pred \o "(", op.id), op, 1),
         ");\n", op.id)

\* Mutant: the directive is written whether or not the loop is marked.
PipelinePragmaAlways(st, op) ==
    Put(indent(st, op.id),
        Tok("pipeline", getIntAttrValue(op, "target_ii"),
            "#pragma HLS pipeline II="
              \o ToString(getIntAttrValue(op, "target_ii")) \o "\n",
            "-", op.id))

\* The pipeline directive both loop emitters write after addIndent().
PipelinePragma(st, op) ==
    IF getIntAttrValue(op, "pipeline") # 0
    THEN Put(indent(st, op.id),
             Tok("pipeline", getIntAttrValue(op, "target_ii"),
                 "#pragma HLS pipeline II="
                   \o ToString(getIntAttrValue(op, "target_ii")) \o "\n",
                 "-", op.id))
    ELSE st

\* ModuleEmitter::emitAffineFor up to emitBlock(*op.getBody()); op.results[1]
\* is the induction variable, the bound maps are the constants 0 and 16.
emitAffineForHead(st, op) ==
    LET iv == op.results[1]
        s1 == emitValue(Text(indent(st, op.id), "for (", op.id), iv, 0,
                        FALSE, "def", op.id)
        s2 == emitValue(Text(s1, " = 0; ", op.id), iv, 0, FALSE, "use",
                        op.id)
        s3 == emitValue(Text(s2, " < 16; ", op.id), iv, 0, FALSE, "use",
                        op.id)
        s4 == emitInfoAndNewLine(Text(s3, " += 1) {", op.id), op.id)
    IN PipelinePragma(addIndent(s4), op)

\* ModuleEmitter::emitScfFor up to emitBlock(*op.getBody()); operands are
\* lowerBound, upperBound, step.
emitScfForHead(st, op) ==
    LET iv == op.results[1]
        s1 == emitValue(Text(indent(st, op.id), "for (", op.id), iv, 0,
                        FALSE, "def", op.id)
        s2 == emitValue(Text(s1, " = ", op.id), op.operands[1], 0, FALSE,
                        "use", op.id)
        s3 == emitValue(Text(s2, "; ", op.id), iv, 0, FALSE, "use", op.id)
        s4 == emitValue(Text(s3, " < ", op.id), op.operands[2], 0, FALSE,
                        "use", op.id)
        s5 == emitValue(Text(s4, "; ", op.id), iv, 0, FALSE, "use", op.id)
        s6 == emitValue(Text(s5, " += ", op.id), op.operands[3], 0, FALSE,
                        "use", op.id)
        s7 == emitInfoAndNewLine(Text(s6, ") {", op.id), op.id)
    IN PipelinePragma(addIndent(s7), op)

\* Mutant: the loop is closed without reduceIndent().
emitForTailNoReduce(st, opid) == Text(indent(st, opid), "}\n", opid)

\* Both loop emitters after emitBlock: reduceIndent(); indent(); "}\n".
emitForTail(st, opid) == Text(indent(reduceIndent(st), opid), "}\n", opid)

(***************************************************************************)
(* AffineExprEmitter.  An affine expression is a record: k is "const"      *)
(* (with v), "dim" or "sym" (with pos), or one of the binary kinds (with   *)
(* lhs and rhs).  What the emitter writes goes to the output piece by      *)
(* piece: punctuation as text, a constant as a "num" token holding the     *)
(* number, a dimension or symbol as the name of its operand.               *)
(***************************************************************************)
AffineBinaryKinds == {"add", "mul", "mod", "floordiv", "ceildiv"}

\* os << n for an integer n.
NumTok(st, n, op) == Put(st, Tok("num", n, ToString(n), "-", op))

RECURSIVE visitAffineExpr(_, _, _, _, _)
RECURSIVE emitAffineBinary(_, _, _, _, _, _)

\* AffineExprEmitter::emitAffineBinary
emitAffineBinary(st, expr, syntax, numDim, operands, op) ==
    IF expr.rhs.k = "const" /\ syntax = "*" /\ expr.rhs.v = -1
    THEN Text(visitAffineExpr(Text(Text(st, "(", op), "-", op), expr.lhs,
                              numDim, operands, op),
              ")", op)
    ELSE IF expr.rhs.k = "const" /\ syntax = "+" /\ expr.rhs.v < 0
    THEN Text(NumTok(Text(visitAffineExpr(Text(st, "(", op), expr.lhs,
                                          numDim, operands, op),
                          " - ", op),
                     -expr.rhs.v, op),
              ")", op)
    ELSE IF /\ expr.rhs.k \in AffineBinaryKinds
            /\ expr.rhs.rhs.k = "const"
            /\ syntax = "+"
            /\ expr.rhs.rhs.v = -1
            /\ expr.rhs.k = "mul"
    THEN Text(visitAffineExpr(
                Text(visitAffineExpr(Text(st, "(", op), expr.lhs, numDim,
                                     operands, op),
                     " - ", op),
                expr.rhs.lhs, numDim, operands, op),
              ")", op)
    ELSE Text(visitAffineExpr(
                Text(visitAffineExpr(Text(st, "(", op), expr.lhs, numDim,
                                     operands, op),
                     " " \o syntax \o " ", op),
                expr.rhs, numDim, operands, op),
              ")", op)

\* AffineExprVisitor::visit with the overloads of AffineExprEmitter; the
\* literal " - 1) / " of visitCeilDivExpr is written as its four pieces.
visitAffineExpr(st, expr, numDim, operands, op) ==
    CASE expr.k = "add" ->
           emitAffineBinary(st, expr, "+", numDim, operands, op)
      [] expr.k = "mul" ->
           emitAffineBinary(st, expr, "*", numDim, operands, op)
      [] expr.k = "mod" ->
           emitAffineBinary(st, expr, "%", numDim, operands, op)
      [] expr.k = "floordiv" ->
           emitAffineBinary(st, expr, "/", numDim, operands, op)
      [] expr.k = "ceildiv" ->
           Text(visitAffineExpr(
                  Text(Text(NumTok(Text(
                    visitAffineExpr(
                      Text(visitAffineExpr(Text(st, "(", op), expr.lhs,
                                           numDim, operands, op),
                           " + ", op),
                      expr.rhs, numDim, operands, op),
                    " - ", op), 1, op), ")", op), " / ", op),
                  expr.rhs, numDim, operands, op),
                ")", op)
      [] expr.k = "const" -> NumTok(st, expr.v, op)
      [] expr.k = "dim" -> NameTok(st, operands[expr.pos + 1], op)
      [] expr.k = "sym" -> NameTok(st, operands[numDim + expr.pos + 1], op)

\* AffineExprEmitter::emitAffineExpr
emitAffineExpr(st, expr, numDim, operands, op) ==
    visitAffineExpr(st, expr, numDim, operands, op)

\* ModuleEmitter::emitAffineApply; the operation carries map (the one result
\* of its affine map) and numDims.
emitAffineApply(st, op) ==
    emitInfoAndNewLine(
      Text(emitAffineExpr(
             Text(emitValue(indent(st, op.id), op.results[1], 0, FALSE,
                            "def", op.id),
                  " = ", op.id),
             op.map, op.numDims, op.operands, op.id),
           ";", op.id),
      op.id)

(***************************************************************************)
(* Conditionals.  An scf.if has the condition as its operand; an affine.if *)
(* carries constraints, a sequence of records expr and eq, and numDims.    *)
(* Both carry hasElse.  A yield with operands carries parent.              *)
(***************************************************************************)
\* Mutant: no result is declared ahead of the construct.
ResultDeclsNone(st, results, i, opid) == st

\* The first loop of emitScfIf, emitAffineIf and emitAffineParallel: a
\* result not yet declared is declared on a line of its own.
RECURSIVE ResultDecls(_, _, _, _)
ResultDecls(st, results, i, opid) ==
    IF i > Len(results) THEN st
    ELSE IF isDeclared(st, results[i])
    THEN ResultDecls(st, results, i + 1, opid)
    ELSE ResultDecls(
           Text(IF isShaped(results[i])
                THEN emitArrayDecl(indent(st, opid), results[i], "def", opid)
                ELSE emitValue(indent(st, opid), results[i], 0, FALSE, "def",
                               opid),
                ";\n", opid),
           results, i + 1, opid)

\* The constraint loop of emitAffineIf.
RECURSIVE IfConstraints(_, _, _)
IfConstraints(st, op, constrIdx) ==
    IF constrIdx >= Len(op.constraints) THEN st
    ELSE IfConstraints(
           Text(Text(emitAffineExpr(st, op.constraints[constrIdx + 1].expr,
                                    op.numDims, op.operands, op.id),
                     IF op.constraints[constrIdx + 1].eq
                     THEN " == 0" ELSE " >= 0", op.id),
                IF constrIdx # Len(op.constraints) - 1 THEN " && " ELSE "",
                op.id),
           op, constrIdx + 1)

\* ModuleEmitter::emitScfIf up to emitBlock(op.thenRegion().front()).
emitScfIfHead(st, op) ==
    addIndent(
      emitInfoAndNewLine(
        Text(emitValue(
               Text(indent(ResultDecls(st, op.results, 1, op.id), op.id),
                    "if (", op.id),
               op.operands[1], 0, FALSE, "use", op.id),
             ") {", op.id),
        op.id))

\* ModuleEmitter::emitAffineIf up to emitBlock(*op.getThenBlock()).
emitAffineIfHead(st, op) ==
    addIndent(
      emitInfoAndNewLine(
        Text(IfConstraints(
               Text(indent(ResultDecls(st, op.results, 1, op.id), op.id),
                    "if (", op.id),
               op, 0),
             ") {", op.id),
        op.id))

\* Both emitters between the two arms: reduceIndent(); indent();
\* "} else {\n"; addIndent().
emitIfElse(st, opid) ==
    addIndent(Text(indent(reduceIndent(st), opid), "} else {\n", opid))

\* Both emitters after the last arm: reduceIndent(); indent(); "}\n".
emitIfTail(st, opid) == Text(indent(reduceIndent(st), opid), "}\n", opid)

(***************************************************************************)
(* affine.parallel and its yield.  A parallel operation carries, next to   *)
(* the fields of Op, ivs (the arguments of its body) and reductions (one   *)
(* AtomicRMWKind per result); the bound maps are the constants 0 and 16    *)
(* and the steps are 1.  A yield with operands carries parent, the record  *)
(* of the operation it ends.                                               *)
(***************************************************************************)
AtomicRMWKinds ==
    {"addf", "addi", "assign", "maxf", "maxs", "maxu", "minf", "mins",
     "minu", "mulf", "muli"}

\* The second loop of emitAffineParallel: one for statement per dimension.
RECURSIVE ParallelLoopHeads(_, _, _, _)
ParallelLoopHeads(st, ivs, i, opid) ==
    IF i > Len(ivs) THEN st
    ELSE ParallelLoopHeads(
           addIndent(
             Text(emitValue(
                    Text(emitValue(
                           Text(emitValue(
                                  Text(indent(st, opid), "for (", opid),
                                  ivs[i], 0, FALSE, "def", opid),
                                " = 0; ", opid),
                           ivs[i], 0, FALSE, "use", opid),
                         " < 16; ", opid),
                    ivs[i], 0, FALSE, "use", opid),
                  " += 1) {\n", opid)),
           ivs, i + 1, opid)

\* ModuleEmitter::emitAffineParallel up to emitBlock(*op.getBody()).
emitAffineParallelHead(st, op) ==
    ParallelLoopHeads(ResultDecls(st, op.results, 1, op.id),
                      op.ivs, 1, op.id)

\* The last loop of emitAffineParallel: the closing braces, the last one
\* without a line break.
RECURSIVE ParallelLoopTails(_, _, _, _)
ParallelLoopTails(st, e, i, opid) ==
    IF i >= e THEN st
    ELSE ParallelLoopTails(
           Text(indent(reduceIndent(st), opid),
                IF i = e - 1 THEN "}" ELSE "}\n", opid),
           e, i + 1, opid)

\* ModuleEmitter::emitAffineParallel after emitBlock.
emitAffineParallelTail(st, op) ==
    emitInfoAndNewLine(ParallelLoopTails(st, Len(op.ivs), 0, op.id), op.id)

\* One statement "result = operand;" of emitAffineYield after
\* emitNestedLoopHead returned h.
YieldAssignStmt(h, res, operand, opid) ==
    emitNestedLoopTail(
      emitInfoAndNewLine(
        Text(emitValue(
               Text(emitValue(indent(h.st, opid), res, h.rank, FALSE,
                              "use", opid),
                    " = ", opid),
               operand, h.rank, FALSE, "use", opid),
             ";", opid),
        opid),
      h.rank, opid)

\* The loop of assignments, of the affine.if branch and of the first arm of
\* the affine.parallel branch: result by result, resultIdx counted along.
RECURSIVE YieldAssigns(_, _, _, _)
YieldAssigns(st, op, i, resultIdx) ==
    IF i > Len(op.parent.results) THEN st
    ELSE YieldAssigns(
           YieldAssignStmt(
             emitNestedLoopHead(st, op.parent.results[i], op.id),
             op.parent.results[i], op.operands[resultIdx + 1], op.id),
           op, i + 1, resultIdx + 1)

\* Mutant: every reduction is rendered as a sum.
YieldReduceRhsSum(st, kind, res, operand, rank, opid) ==
    emitValue(Text(st, " += ", opid), operand, rank, FALSE, "use", opid)

\* The switch on the AtomicRMWKind of a result, after the result was
\* written.
YieldReduceRhs(st, kind, res, operand, rank, opid) ==
    CASE kind \in {"addf", "addi"} ->
           emitValue(Text(st, " += ", opid), operand, rank, FALSE, "use",
                     opid)
      [] kind = "assign" ->
           emitValue(Text(st, " = ", opid), operand, rank, FALSE, "use",
                     opid)
      [] kind \in {"maxf", "maxs", "maxu"} ->
           Text(emitValue(
                  Text(emitValue(Text(st, " = max(", opid), res, rank,
                                 FALSE, "use", opid),
                       ", ", opid),
                  operand, rank, FALSE, "use", opid),
                ")", opid)
      [] kind \in {"minf", "mins", "minu"} ->
           Text(emitValue(
                  Text(emitValue(Text(st, " = min(", opid), res, rank,
                                 FALSE, "use", opid),
                       ", ", opid),
                  operand, rank, FALSE, "use", opid),
                ")", opid)
      [] kind \in {"mulf", "muli"} ->
           emitValue(Text(st, " *= ", opid), operand, rank, FALSE, "use",
                     opid)
      [] OTHER -> st

\* One statement of the else arm after emitNestedLoopHead returned h.
YieldReduceStmt(h, kind, res, operand, opid) ==
    emitNestedLoopTail(
      emitInfoAndNewLine(
        Text(YieldReduceRhs(
               emitValue(indent(h.st, opid), res, h.rank, FALSE, "use",
                         opid),
               kind, res, operand, h.rank, opid),
             ";", opid),
        opid),
      h.rank, opid)

\* The loop of the else arm; resultIdx goes up inside each case of the
\* switch, and stays where no case is taken.
RECURSIVE YieldReduces(_, _, _, _)
YieldReduces(st, op, i, resultIdx) ==
    IF i > Len(op.parent.results) THEN st
    ELSE YieldReduces(
           YieldReduceStmt(
             emitNestedLoopHead(st, op.parent.results[i], op.id),
             op.parent.reductions[resultIdx + 1],
             op.parent.results[i], op.operands[resultIdx + 1], op.id),
           op, i + 1,
           IF op.parent.reductions[resultIdx + 1] \in AtomicRMWKinds
           THEN resultIdx + 1 ELSE resultIdx)

\* The condition of the if: "iv == 0" for every argument of the body, with
\* " && " in between.
RECURSIVE YieldCondition(_, _, _, _)
YieldCondition(st, ivs, i, opid) ==
    IF i > Len(ivs) THEN st
    ELSE YieldCondition(
           Text(emitValue(st, ivs[i], 0, FALSE, "use", opid),
                IF i # Len(ivs) THEN " == 0 && " ELSE " == 0", opid),
           ivs, i + 1, opid)

\* The affine.parallel branch of emitAffineYield.
emitParallelYield(st, op) ==
    Text(indent(
           reduceIndent(
             YieldReduces(
               addIndent(
                 Text(indent(
                        reduceIndent(
                          YieldAssigns(
                            addIndent(
                              Text(YieldCondition(
                                     Text(indent(st, op.id), "if (", op.id),
                                     op.parent.ivs, 1, op.id),
                                   ") {\n", op.id)),
                            op, 1, 0)),
                        op.id),
                      "} else {\n", op.id)),
               op, 1, 0)),
           op.id),
         "}\n", op.id)

\* ModuleEmitter::emitAffineYield
emitAffineYield(st, op) ==
    IF Len(op.operands) = 0 THEN st
    ELSE IF op.parent.kind = "affine.if" THEN YieldAssigns(st, op, 1, 0)
    ELSE IF op.parent.kind = "affine.parallel" THEN emitParallelYield(st, op)
    ELSE st

\* ModuleEmitter::emitScfYield
emitScfYield(st, op) ==
    IF Len(op.operands) = 0 THEN st
    ELSE IF op.parent.kind = "scf.if" THEN YieldAssigns(st, op, 1, 0)
    ELSE st

(***************************************************************************)
(* The three dispatchers.  HLSCppOps and HLSKernelOps are the catalogues   *)
(* of the two TypeSwitch lists; an operation outside a catalogue goes to   *)
(* that visitor base's visitInvalidOp, one inside it without a visitOp     *)
(* overload in the concrete visitor goes to visitUnhandledOp.              *)
(***************************************************************************)
HLSCppOps ==
    {"scf.for", "scf.if", "scf.parallel", "scf.reduce", "scf.reduce.return",
     "scf.yield", "affine.for", "affine.if", "affine.parallel",
     "affine.apply", "affine.max", "affine.min", "affine.load",
     "affine.store", "affine.yield", "affine.vector_load",
     "affine.vector_store", "affine.dma_start", "affine.dma_wait",
     "alloc", "alloca", "load", "store", "dealloc", "dma_start", "dma_wait",
     "atomic_rmw", "generic_atomic_rmw", "atomic_yield", "memref_cast",
     "view", "subview", "tensor_load", "tensor_store", "tensor_to_memref",
     "splat", "dim", "rank", "absf", "ceilf", "negf", "cos", "sin", "tanh",
     "sqrt", "rsqrt", "exp", "exp2", "log", "log2", "log10", "cmpf", "addf",
     "subf", "mulf", "divf", "remf", "cmpi", "addi", "subi", "muli",
     "divi_signed", "remi_signed", "divi_unsigned", "remi_unsigned", "xor",
     "and", "or", "shift_left", "shift_right_signed",
     "shift_right_unsigned", "select", "constant", "copysign", "trunci",
     "zexti", "sexti", "index_cast", "call", "return", "uitofp", "sitofp",
     "fptosi", "fptoui", "hlscpp.assign", "hlscpp.end"}

HLSKernelOps ==
    {"hlskernel.dense", "hlskernel.conv", "hlskernel.maxpool",
     "hlskernel.relu", "hlskernel.merge", "hlskernel.copy",
     "hlskernel.amax", "hlskernel.amin", "hlskernel.asum", "hlskernel.axpy",
     "hlskernel.dot", "hlskernel.gbmv", "hlskernel.gemm", "hlskernel.gemv",
     "hlskernel.nrm2", "hlskernel.scal", "hlskernel.swap", "hlskernel.symm",
     "hlskernel.symv", "hlskernel.syrk", "hlskernel.syr2k",
     "hlskernel.trmm", "hlskernel.trmv"}

\* The cmpf predicates ExprVisitor::visitOp(CmpFOp) has a case for.
SupportedCmpF ==
    {"oeq", "ueq", "one", "une", "olt", "ult", "ole", "ule", "ogt", "ugt",
     "oge", "uge"}

CmpFSyntax(pred) ==
    CASE pred \in {"oeq", "ueq"} -> "=="
      [] pred \in {"one", "une"} -> "!="
      [] pred \in {"olt", "ult"} -> "<"
      [] pred \in {"ole", "ule"} -> "<="
      [] pred \in {"ogt", "ugt"} -> ">"
      [] OTHER -> ">="

Ret(st, r) == [st |-> st, ret |-> r]

\* ExprVisitor(*this).dispatchVisitor(&op)
ExprVisitor(st, op) ==
    IF op.kind \notin HLSCppOps THEN Ret(st, FALSE)
    ELSE CASE op.kind = "cmpf" ->
                IF op.pred \in SupportedCmpF
                THEN Ret(emitBinary(st, op, CmpFSyntax(op.pred)), TRUE)
                ELSE Ret(opEmitError(st, op.id,
                                     "has unsupported compare type."), FALSE)
           [] op.kind = "addf" -> Ret(emitBinary(st, op, "+"), TRUE)
           [] op.kind = "mulf" -> Ret(emitBinary(st, op, "*"), TRUE)
           [] op.kind = "addi" -> Ret(emitBinary(st, op, "+"), TRUE)
           [] op.kind = "absf" -> Ret(emitUnary(st, op, "abs"), TRUE)
           [] op.kind = "select" -> Ret(emitSelect(st, op), TRUE)
           [] op.kind = "constant" -> Ret(emitConstant(st, op), TRUE)
           [] op.kind = "return" -> Ret(st, TRUE)
           [] OTHER -> Ret(st, FALSE)

\* StmtVisitor(*this).dispatchVisitor(&op).
StmtVisitor(st, op) ==
    IF op.kind \notin HLSCppOps THEN Ret(st, FALSE)
    ELSE CASE op.kind = "affine.for" -> Ret(emitAffineForHead(st, op), TRUE)
           [] op.kind = "scf.for" -> Ret(emitScfForHead(st, op), TRUE)
           [] op.kind = "alloc" -> Ret(emitAlloc(st, op), TRUE)
           [] op.kind = "dim" -> Ret(emitDim(st, op), TRUE)
           [] op.kind = "tensor_load" -> Ret(emitTensorLoad(st, op), TRUE)
           [] op.kind = "tensor_to_memref" ->
                Ret(emitTensorToMemref(st, op), TRUE)
           [] op.kind = "affine.parallel" ->
                Ret(emitAffineParallelHead(st, op), TRUE)
           [] op.kind = "affine.yield" -> Ret(emitAffineYield(st, op), TRUE)
           [] op.kind = "scf.yield" -> Ret(emitScfYield(st, op), TRUE)
           [] op.kind = "scf.if" -> Ret(emitScfIfHead(st, op), TRUE)
           [] op.kind = "affine.if" -> Ret(emitAffineIfHead(st, op), TRUE)
           [] op.kind = "affine.apply" -> Ret(emitAffineApply(st, op), TRUE)
           [] op.kind = "hlscpp.assign" -> Ret(emitAssign(st, op), TRUE)
           [] op.kind = "hlscpp.end" -> Ret(st, TRUE)
           [] OTHER -> Ret(st, FALSE)

\* The primitives IPVisitor::visitOp is overloaded for with an emitter of
\* their own shape in this model, and the other BLAS primitives.
OtherBlasOps ==
    {"hlskernel.amin", "hlskernel.asum", "hlskernel.axpy", "hlskernel.dot",
     "hlskernel.gbmv", "hlskernel.gemv", "hlskernel.nrm2",
     "hlskernel.symv", "hlskernel.trmv"}

\* IPVisitor::visitOp: the overload of the concrete visitor, or the
\* inherited one that goes to visitUnhandledOp and returns bool().
IPVisitOp(st, op) ==
    CASE op.kind = "hlskernel.amax" ->
           [st |-> emitAmaxIP(st, op), ret |-> TRUE, abort |-> FALSE]
      [] op.kind = "hlskernel.gemm" ->
           [st |-> emitGemmIP(st, op), ret |-> TRUE, abort |-> FALSE]
      [] op.kind = "hlskernel.scal" ->
           [st |-> emitScalIP(st, op), ret |-> TRUE, abort |-> FALSE]
      [] op.kind = "hlskernel.swap" ->
           [st |-> emitSwapIP(st, op), ret |-> TRUE, abort |-> FALSE]
      [] op.kind \in OtherBlasOps ->
           [st |-> emitBlasIP(st, op), ret |-> TRUE, abort |-> FALSE]
      [] op.kind = "hlskernel.fft" ->
           [st |-> emitFFTIP(st, op), ret |-> TRUE, abort |-> FALSE]
      [] op.kind = "hlskernel.psqrt" ->
           [st |-> emitPSqrtIP(st, op), ret |-> TRUE, abort |-> FALSE]
      [] op.kind = "hlskernel.ip" ->
           [st |-> emitIP(st, op), ret |-> TRUE, abort |-> FALSE]
      [] OTHER -> [st |-> st, ret |-> FALSE, abort |-> FALSE]

\* IPVisitor(*this).dispatchVisitor(&op): abort is the abort() of
\* HLSKernelVisitorBase::visitInvalidOp.
IPVisitor(st, op) ==
    IF op.kind \notin HLSKernelOps
    THEN [st |-> opEmitError(st, op.id, "is unsupported operation."),
          ret |-> FALSE, abort |-> TRUE]
    ELSE IPVisitOp(st, op)

\* The calls that end the process inside a statement emitter: emitDim takes
\* getDefiningOp() of an index that is a block argument and casts the null
\* pointer; addAlias asserts that the aliased value is declared (nd: the
\* build has assertions compiled out).
StmtCrash(st, op, nd) ==
    \/ op.kind = "dim" /\ op.operands[2].arg
    \/ /\ op.kind = "tensor_to_memref"
       /\ ~isDeclared(st, op.results[1])
       /\ ~isDeclared(st, op.operands[1])
       /\ ~nd

\* emitBlock after IPVisitor returned i: a false return is the error of line
\* "can't be correctly emitted.".
emitBlockAfterIP(i, op) ==
    IF i.abort THEN [st |-> i.st, abort |-> TRUE]
    ELSE IF i.ret THEN [st |-> i.st, abort |-> FALSE]
    ELSE [st |-> emitError(i.st, op.id, "can't be correctly emitted."),
          abort |-> FALSE]

\* emitBlock after StmtVisitor returned s.
emitBlockAfterStmt(s, op) ==
    IF s.ret THEN [st |-> s.st, abort |-> FALSE]
    ELSE emitBlockAfterIP(IPVisitor(s.st, op), op)

\* emitBlock after ExprVisitor returned e.
emitBlockAfterExpr(e, op, nd) ==
    IF e.ret THEN [st |-> e.st, abort |-> FALSE]
    ELSE IF StmtCrash(e.st, op, nd) THEN [st |-> e.st, abort |-> TRUE]
    ELSE emitBlockAfterStmt(StmtVisitor(e.st, op), op)

\* One iteration of the loop of ModuleEmitter::emitBlock: the state after it
\* and whether the process was aborted inside it.
emitBlockStep(st, op, nd) ==
    emitBlockAfterExpr(ExprVisitor(st, op), op, nd)

(***************************************************************************)
(* ModuleEmitter::emitFunction and emitModule.  A function is a record:    *)
(* args and rets (the operands of its return), and the attributes          *)
(* top_function, dataflow, pipeline, target_ii.                            *)
(***************************************************************************)
\* auto name = getName(port); if (name.front() == '*') name.erase(begin);
StripStar(name, n) ==
    IF \E k \in 0..n : name = "*val" \o ToString(k)
    THEN "val" \o ToString(CHOOSE k \in 0..n : name = "*val" \o ToString(k))
    ELSE name

\* The interface-pragma loop of emitFunctionPragmas over the ports.
RECURSIVE InterfacePragmas(_, _, _)
InterfacePragmas(st, ports, i) ==
    IF i > Len(ports) THEN st
    ELSE LET p == ports[i]
         IN IF isShaped(p)
            THEN IF p.mem = MemNone THEN InterfacePragmas(st, ports, i + 1)
                 ELSE InterfacePragmas(
                        Text(emitValue(
                               Text(indent(st, 0),
                                    "#pragma HLS interface"
                                      \o (IF p.mem = MemDRAM
                                          THEN " m_axi offset=slave"
                                          ELSE " bram") \o " port=", 0),
                               p, 0, FALSE, "use", 0), "\n", 0),
                        ports, i + 1)
            ELSE InterfacePragmas(
                   Text(Put(Text(indent(st, 0),
                                 "#pragma HLS interface s_axilite port=", 0),
                            Tok("name", p.id,
                                StripStar(getName(st, p),
                                          Cardinality(DOMAIN st.nameTable)),
                                "use", 0)),
                        " bundle=ctrl\n", 0),
                   ports, i + 1)

\* The closing loop of emitFunctionPragmas: emitArrayPragmas per array port.
RECURSIVE PortArrayPragmas(_, _, _)
PortArrayPragmas(st, ports, i) ==
    IF i > Len(ports) THEN st
    ELSE PortArrayPragmas(
           IF isShaped(ports[i]) THEN emitArrayPragmas(st, ports[i], 0)
           ELSE st,
           ports, i + 1)

\* ModuleEmitter::emitFunctionPragmas
emitFunctionPragmas(st, func, ports) ==
    LET s1 == IF func.dataflow
              THEN Text(indent(st, 0), "#pragma HLS dataflow\n\n", 0)
              ELSE st
        s2 == IF func.pipeline
              THEN Text(indent(s1, 0),
                        "#pragma HLS pipeline II="
                          \o ToString(func.target_ii) \o "\n\n", 0)
              ELSE s1
    IN IF func.top
       THEN PortArrayPragmas(
              Text(InterfacePragmas(
                     Text(indent(s2, 0),
                          "#pragma HLS interface s_axilite port=return bundle=ctrl\n",
                          0),
                     ports, 1), "\n", 0),
              ports, 1)
       ELSE s2

\* The argument loop of emitFunction.
RECURSIVE EmitArgs(_, _, _)
EmitArgs(st, args, i) ==
    IF i > Len(args) THEN st
    ELSE LET s1 == indent(st, 0)
             s2 == IF isShaped(args[i])
                   THEN emitArrayDecl(s1, args[i], "def", 0)
                   ELSE emitValue(s1, args[i], 0, FALSE, "def", 0)
         IN EmitArgs(IF i # Len(args) THEN Text(s2, ",\n", 0) ELSE s2,
                     args, i + 1)

\* The result loop of emitFunction over the operands of the return.
RECURSIVE EmitResults(_, _, _)
EmitResults(st, rets, i) ==
    IF i > Len(rets) THEN st
    ELSE LET s1 == indent(Text(st, ",\n", 0), 0)
         IN EmitResults(
              IF isShaped(rets[i])
              THEN emitArrayDecl(s1, rets[i], "def", 0)
              ELSE emitValue(s1, rets[i], 0, TRUE, "def", 0),
              rets, i + 1)

\* The fixed text emitModule writes first.
Preamble == "// Automatically generated file for High-level Synthesis (HLS).\n"

\* ModuleEmitter::emitFunction up to emitBlock(func.front()), for a function
\* with one block that ends in a return.
emitFunctionHead(st, func) ==
    LET s0 == IF func.top THEN Text(st, "/// This is top function.\n", 0)
              ELSE st
        s1 == addIndent(Text(s0, "void f(\n", 0))
        s2 == EmitResults(EmitArgs(s1, func.args, 1), func.rets, 1)
        s3 == emitInfoAndNewLine(Text(reduceIndent(s2), "\n) {", 0), 0)
    IN emitFunctionPragmas(addIndent(s3), func, func.args \o func.rets)

\* ModuleEmitter::emitFunction after emitBlock.
emitFunctionTail(st) == Text(reduceIndent(st), "}\n\n", 0)

\* emitHLSCpp: return failure(state.encounteredError);
emitHLSCppResult(st) ==
    IF st.encounteredError THEN "failure" ELSE "success"

(***************************************************************************)
(* One emission run as a state machine.  The module holds one function;    *)
(* its body is walked operation by operation, each step being one          *)
(* iteration of emitBlock on an operation the input supplies.  Operands    *)
(* are values that dominate the operation (SSA), results are new values or *)
(* values the return names (declared in the signature beforehand).         *)
(***************************************************************************)
\* Operations walked per run, terminators not counted.
MaxOps == 3

\* Loop nesting depth.
MaxDepth == 1

ArgA == Val(1, <<16>>, "f32", TRUE)

ArgX == Val(2, <<>>, "f32", TRUE)

\* The operands of the return: none, a scalar or an array defined in the
\* body.
RetChoices ==
    {<<>>, <<Val(3, <<>>, "f32", FALSE)>>, <<Val(3, <<16>>, "f32", FALSE)>>}

Func(rets, top) ==
    [args |-> <<ArgA, ArgX>>, rets |-> rets, top |-> top,
     dataflow |-> FALSE, pipeline |-> FALSE, target_ii |-> 0]

\* <<pipeline, target_ii>> of a loop.
PipelineChoices == {<<0, 0>>, <<1, 1>>, <<1, 2>>}

Terminators == {"return", "affine.yield", "scf.yield"}

NumOps(p) == Cardinality({i \in DOMAIN p : p[i].kind \notin Terminators})

Live == UNION {stack[i].defs : i \in DOMAIN stack}

LiveArrays == {v \in Live : isShaped(v)}

LiveIndex == {v \in Live : ~isShaped(v) /\ v.elem = "index"}

LiveFloat == {v \in Live : ~isShaped(v) /\ v.elem = "f32"}

Fresh(shape, elem) == Val(nvals + 1, shape, elem, FALSE)

\* A result: a new value, or a returned value of the same type not yet
\* defined.
ResultChoices(shape, elem) ==
    {Fresh(shape, elem)}
      \cup {p \in pending : p.shape = shape /\ p.elem = elem}

NextId == Len(prog) + 1

MaxId(defs) ==
    IF \E v \in defs : v.id > nvals THEN nvals + 1 ELSE nvals

BandIdle ==
    /\ bandState = <<>>
    /\ bandCalled = {}
    /\ frozenRes = FALSE
    /\ coldRes = FALSE
    /\ oneHotRes = FALSE

DSEIdle ==
    /\ numDSP = 0
    /\ bands = <<>>
    /\ cur = 0
    /\ dsePc = "idle"

TileIdle ==
    /\ tripN = 0
    /\ factor = 0
    /\ outerTrip = 0
    /\ outerIv = 0
    /\ innerIv = 0
    /\ visited = <<>>
    /\ tilePc = "idle"

AnnIdle ==
    /\ annIn = <<>>
    /\ annOps = <<>>
    /\ annDataflow = "absent"
    /\ annDataflowIn = "absent"
    /\ annRun = 0
    /\ annTodo = <<>>
    /\ annNext = 0
    /\ annErrs = <<>>
    /\ annPc = "idle"

EmitIdle ==
    /\ state = EmptyState
    /\ prog = <<>>
    /\ stack = <<>>
    /\ pending = {}
    /\ nvals = 0
    /\ pc = "idle"
    /\ ndebug = FALSE
    /\ result = "none"

\* emitHLSCpp entered: HLSCppEmitterState state(os).
EmitInit ==
    /\ state = EmptyState
    /\ prog = <<>>
    /\ stack = <<>>
    /\ pending = {}
    /\ nvals = 0
    /\ pc = "module"
    /\ ndebug \in BOOLEAN
    /\ result = "none"
    /\ BandIdle
    /\ DSEIdle
    /\ TileIdle
    /\ AnnIdle

\* emitModule writes the preamble and enters emitFunction: signature and
\* function pragmas.
BeginFunction ==
    /\ pc = "module"
    /\ \E rets \in RetChoices, top \in BOOLEAN :
         /\ state' = emitFunctionHead(Text(state, Preamble, 0),
                                      Func(rets, top))
         /\ stack' = <<[kind |-> "func", op |-> 0, defs |-> {ArgA, ArgX}]>>
         /\ pending' = {rets[i] : i \in DOMAIN rets}
         /\ nvals' = 2 + Len(rets)
    /\ pc' = "body"
    /\ UNCHANGED <<prog, ndebug, result>>
    /\ UNCHANGED <<bandVars, dseVars, tileVars, annVars>>

\* The state after the walk of op, step being what emitBlock's iteration
\* on it yields: the values op defines become visible in the current block
\* (push = "") or, for a loop, in the block of its body.
Walked(step, op, defs, push) ==
    /\ state' = step.st
    /\ prog' = Append(prog, op)
    /\ pc' = IF step.abort THEN "aborted" ELSE "body"
    /\ stack' = IF push = ""
                THEN [stack EXCEPT ![Len(stack)].defs = @ \cup defs]
                ELSE Append(stack,
                            [kind |-> push, op |-> op.id, defs |-> defs])
    /\ pending' = pending \ defs
    /\ nvals' = MaxId(defs)
    /\ UNCHANGED <<ndebug, result>>
    /\ UNCHANGED <<bandVars, dseVars, tileVars, annVars>>

\* The walk of one operation: emitBlock's three dispatch attempts on it.
Walk(op, defs, push) ==
    /\ pc = "body"
    /\ NumOps(prog) < MaxOps
    /\ Walked(emitBlockStep(state, op, ndebug), op, defs, push)

WalkAffineFor ==
    /\ Len(stack) <= MaxDepth
    /\ \E pl \in PipelineChoices :
         LET iv == [Fresh(<<>>, "index") EXCEPT !.arg = TRUE]
         IN Walk([Op("affine.for", NextId, <<>>, <<iv>>)
                    EXCEPT !.pipeline = pl[1], !.target_ii = pl[2]],
                 {iv}, "affine.for")

WalkScfFor ==
    /\ Len(stack) <= MaxDepth
    /\ \E pl \in PipelineChoices, b \in LiveIndex :
         LET iv == [Fresh(<<>>, "index") EXCEPT !.arg = TRUE]
         IN Walk([Op("scf.for", NextId, <<b, b, b>>, <<iv>>)
                    EXCEPT !.pipeline = pl[1], !.target_ii = pl[2]],
                 {iv}, "scf.for")

WalkAlloc ==
    \E shape \in {<<16>>, <<-1>>} :
      \E r \in ResultChoices(shape, "f32") :
        Walk(Op("alloc", NextId, <<>>, <<r>>), {r}, "")

WalkConstant ==
    \/ \E c \in {0, 5} :
         LET r == ConstVal(nvals + 1, c)
         IN Walk([Op("constant", NextId, <<>>, <<r>>) EXCEPT !.pred = "int"],
                 {r}, "")
    \/ \E k \in {"dense", "other"} :
         LET r == Fresh(<<16>>, "f32")
         IN Walk([Op("constant", NextId, <<>>, <<r>>) EXCEPT !.pred = k],
                 {r}, "")

WalkDim ==
    \E a \in LiveArrays, i \in LiveIndex :
      LET r == Fresh(<<>>, "index")
      IN Walk(Op("dim", NextId, <<a, i>>, <<r>>), {r}, "")

WalkAddF ==
    \E x \in LiveFloat, y \in LiveFloat :
      \E r \in ResultChoices(<<>>, "f32") :
        Walk(Op("addf", NextId, <<x, y>>, <<r>>), {r}, "")

WalkCmpF ==
    \E x \in LiveFloat, y \in LiveFloat, p \in {"olt", "true"} :
      LET r == Fresh(<<>>, "i1")
      IN Walk([Op("cmpf", NextId, <<x, y>>, <<r>>) EXCEPT !.pred = p],
              {r}, "")

\* The live arrays of memref type: the results of the operations that
\* return one.  A function argument may be of either type.
LiveMemRefs ==
    {v \in LiveArrays :
       \E i \in DOMAIN prog :
         /\ prog[i].kind \in {"alloc", "memref_cast", "tensor_to_memref"}
         /\ prog[i].results = <<v>>}

\* The live arrays of tensor type.
LiveTensors ==
    {v \in LiveArrays :
       \E i \in DOMAIN prog :
         /\ prog[i].kind \in {"constant", "tensor_load"}
         /\ prog[i].results = <<v>>}

WalkTensorToMemref ==
    \E a \in LiveArrays \ LiveMemRefs :
      \E r \in ResultChoices(a.shape, "f32") :
        Walk(Op("tensor_to_memref", NextId, <<a>>, <<r>>), {r}, "")

WalkTensorLoad ==
    \E a \in LiveArrays \ LiveTensors :
      LET r == Fresh(a.shape, "f32")
      IN Walk(Op("tensor_load", NextId, <<a>>, <<r>>), {r}, "")

WalkAmax ==
    \E a \in {v \in LiveArrays : hasStaticShape(v)}, r \in LiveFloat :
      Walk(Op("hlskernel.amax", NextId, <<a, r>>, <<>>), {}, "")

\* An HLSKernel operation IPVisitor has no overload for.
WalkDense ==
    \E a \in LiveArrays :
      Walk(Op("hlskernel.dense", NextId, <<a>>, <<>>), {}, "")

\* An operation of the HLSCpp catalogue no visitor has an overload for.
WalkMemRefCast ==
    \E a \in LiveArrays :
      LET r == Fresh(a.shape, "f32")
      IN Walk(Op("memref_cast", NextId, <<a>>, <<r>>), {r}, "")

\* The terminator of the block being walked.
Terminator ==
    Op(IF stack[Len(stack)].kind = "func" THEN "return"
       ELSE IF stack[Len(stack)].kind = "affine.for" THEN "affine.yield"
       ELSE "scf.yield",
       NextId, <<>>, <<>>)

\* The terminator of the current block, then what the emitter of the
\* enclosing operation does after emitBlock: a loop closes its brace; the
\* function closes its brace, emitModule ends and emitHLSCpp returns.
EndBlock ==
    /\ pc = "body"
    /\ stack[Len(stack)].kind = "func" => pending = {}
    /\ prog' = Append(prog, Terminator)
    /\ stack' = SubSeq(stack, 1, Len(stack) - 1)
    /\ IF stack[Len(stack)].kind = "func"
       THEN /\ state' = emitFunctionTail(
                          emitBlockStep(state, Terminator, ndebug).st)
            /\ pc' = "done"
            /\ result' = emitHLSCppResult(state')
       ELSE /\ state' = emitForTail(
                          emitBlockStep(state, Terminator, ndebug).st,
                          stack[Len(stack)].op)
            /\ pc' = "body"
            /\ result' = result
    /\ UNCHANGED <<pending, nvals, ndebug>>
    /\ UNCHANGED <<bandVars, dseVars, tileVars, annVars>>

EmitNext ==
    \/ BeginFunction
    \/ WalkAffineFor
    \/ WalkScfFor
    \/ WalkAlloc
    \/ WalkConstant
    \/ WalkDim
    \/ WalkAddF
    \/ WalkCmpF
    \/ WalkTensorToMemref
    \/ WalkTensorLoad
    \/ WalkAmax
    \/ WalkDense
    \/ WalkMemRefCast
    \/ EndBlock

SpecEmit == EmitInit /\ [][EmitNext]_vars

(***************************************************************************)
(* Emission of arrays that carry a layout map: one function whose first    *)
(* port is a two-dimensional memref, and local allocations of such         *)
(* memrefs.  The frame of the function records its top_function attribute. *)
(***************************************************************************)
\* Allocations walked per run.
MaxAllocs == 2

\* Largest partition factor of a dimension.
MaxFactor == 2

\* One dimension of a layout map: <<factor, its expression is a floordiv>>.
DimLayouts ==
    {<<f, b>> : f \in 1..MaxFactor, b \in BOOLEAN} \ {<<1, TRUE>>}

\* The memrefs of shape 16x16: without layout map, or with one layout per
\* dimension; memory space none or simple dual-port BRAM.
LayoutArrays(id, arg) ==
    {[Val(id, <<16, 16>>, "f32", arg) EXCEPT !.mem = m]
       : m \in {MemNone, MemBRAM_S2P}}
      \cup {[Val(id, <<16, 16>>, "f32", arg)
               EXCEPT !.mem = m,
                      !.factors = <<l1[1], l2[1]>>,
                      !.block = <<l1[2], l2[2]>>]
              : m \in {MemNone, MemBRAM_S2P},
                l1 \in DimLayouts, l2 \in DimLayouts}

FuncOf(args, top) ==
    [args |-> args, rets |-> <<>>, top |-> top,
     dataflow |-> FALSE, pipeline |-> FALSE, target_ii |-> 0]

\* emitModule enters emitFunction for a function with an array port.
BeginLayoutFunction ==
    /\ pc = "module"
    /\ \E port \in LayoutArrays(1, TRUE), top \in BOOLEAN :
         /\ state' = emitFunctionHead(Text(state, Preamble, 0),
                                      FuncOf(<<port, ArgX>>, top))
         /\ stack' = <<[kind |-> "func", op |-> 0, defs |-> {port, ArgX},
                        top |-> top]>>
    /\ pending' = {}
    /\ nvals' = 2
    /\ pc' = "body"
    /\ UNCHANGED <<prog, ndebug, result>>
    /\ UNCHANGED <<bandVars, dseVars, tileVars, annVars>>

\* emitBlock's iteration on an alloc of a memref with a layout.
WalkLayoutAlloc ==
    /\ pc = "body"
    /\ NumOps(prog) < MaxAllocs
    /\ \E r \in LayoutArrays(nvals + 1, FALSE) :
         Walked(emitBlockStep(state, Op("alloc", NextId, <<>>, <<r>>),
                              ndebug),
                Op("alloc", NextId, <<>>, <<r>>), {r}, "")

PragmaNext ==
    \/ BeginLayoutFunction
    \/ WalkLayoutAlloc
    \/ EndBlock

SpecPragma == EmitInit /\ [][PragmaNext]_vars

(***************************************************************************)
(* Emission of hardware-IP primitives: one function whose ports are        *)
(* vectors and matrices of single and double precision and a scalar, and   *)
(* a body of hlskernel operations on them.                                 *)
(***************************************************************************)
\* IP operations walked per run.
MaxIPOps == 2

Vec32 == Val(1, <<16>>, "f32", TRUE)

Vec64 == Val(2, <<16>>, "f64", TRUE)

Mat32 == Val(3, <<16, 16>>, "f32", TRUE)

Mat64 == Val(4, <<16, 16>>, "f64", TRUE)

Scalar32 == Val(5, <<>>, "f32", TRUE)

\* The operands of a BLAS primitive on the vector x, scalars elsewhere.
BlasOperands(kind, x) ==
    IF kind \in {"hlskernel.amax", "hlskernel.amin", "hlskernel.asum",
                 "hlskernel.nrm2"} THEN <<x, Scalar32>>
    ELSE IF kind = "hlskernel.dot" THEN <<x, x, Scalar32>>
    ELSE IF kind = "hlskernel.scal" THEN <<Scalar32, x, x>>
    ELSE IF kind = "hlskernel.axpy" THEN <<Scalar32, x, x, x>>
    ELSE <<Scalar32, Scalar32, x, x, x, x>>

BeginIPFunction ==
    /\ pc = "module"
    /\ \E top \in BOOLEAN :
         state' = emitFunctionHead(
                    Text(state, Preamble, 0),
                    FuncOf(<<Vec32, Vec64, Mat32, Mat64, Scalar32>>, top))
    /\ stack' = <<[kind |-> "func", op |-> 0,
                   defs |-> {Vec32, Vec64, Mat32, Mat64, Scalar32}]>>
    /\ pending' = {}
    /\ nvals' = 5
    /\ pc' = "body"
    /\ UNCHANGED <<prog, ndebug, result>>
    /\ UNCHANGED <<bandVars, dseVars, tileVars, annVars>>

\* emitBlock's iteration on one operation of the body.
WalkIP(op) ==
    /\ pc = "body"
    /\ NumOps(prog) < MaxIPOps
    /\ Walked(emitBlockStep(state, op, ndebug), op, {}, "")

\* A BLAS primitive on a vector.
WalkBlasIP ==
    \E kind \in {"hlskernel.amax", "hlskernel.scal"} \cup OtherBlasOps,
       x \in {Vec32, Vec64} :
      WalkIP(Op(kind, NextId, BlasOperands(kind, x), <<>>))

\* gemm on matrices.
WalkGemmIP ==
    \E m \in {Mat32, Mat64} :
      WalkIP(Op("hlskernel.gemm", NextId,
                <<Scalar32, Scalar32, m, m, m, m>>, <<>>))

\* The DSP, solver and general IP operations.
WalkOtherIP ==
    \/ WalkIP(Op("hlskernel.fft", NextId, <<Mat32, Mat32>>, <<>>))
    \/ \E x \in {Vec32, Vec64} :
         WalkIP(Op("hlskernel.psqrt", NextId, <<Scalar32, x, x>>, <<>>))
    \/ WalkIP([Op("hlskernel.ip", NextId,
                  <<Scalar32, Scalar32, Mat32, Mat32>>, <<>>)
                 EXCEPT !.pred = "gemm"])

IPNext ==
    \/ BeginIPFunction
    \/ WalkBlasIP
    \/ WalkGemmIP
    \/ WalkOtherIP
    \/ EndBlock

SpecIP == EmitInit /\ [][IPNext]_vars

(***************************************************************************)
(* The emission of a function whose body is one affine.parallel with       *)
(* reductions: up to MaxParDims induction variables and up to              *)
(* MaxParResults results, each with its AtomicRMWKind; the yield returns,  *)
(* for each result, one of the function's arguments of the result's type.  *)
(***************************************************************************)
MaxParDims == 2
MaxParResults == 2

\* The element type of a result reduced with kind.
RMWElem(kind) ==
    IF kind \in {"addf", "assign", "maxf", "minf", "mulf"} THEN "f32"
    ELSE IF kind \in {"maxu", "minu"} THEN "ui32"
    ELSE "i32"

ParArgs ==
    <<Val(1, <<>>, "f32", TRUE), Val(2, <<>>, "f32", TRUE),
      Val(3, <<>>, "i32", TRUE), Val(4, <<>>, "i32", TRUE),
      Val(5, <<>>, "ui32", TRUE), Val(6, <<>>, "ui32", TRUE)>>

BeginParFunction ==
    /\ pc = "module"
    /\ \E top \in BOOLEAN :
         state' = emitFunctionHead(Text(state, Preamble, 0),
                                   FuncOf(ParArgs, top))
    /\ stack' = <<[kind |-> "func", op |-> 0,
                   defs |-> {ParArgs[i] : i \in DOMAIN ParArgs}]>>
    /\ pending' = {}
    /\ nvals' = Len(ParArgs)
    /\ pc' = "body"
    /\ UNCHANGED <<prog, ndebug, result>>
    /\ UNCHANGED <<bandVars, dseVars, tileVars, annVars>>

\* An affine.parallel of d dimensions whose results are reduced with kinds.
ParallelOp(id, d, kinds) ==
    Op("affine.parallel", id, <<>>,
       [i \in 1..Len(kinds) |->
          Val(nvals + d + i, <<>>, RMWElem(kinds[i]), FALSE)])
      @@ [ivs |-> [i \in 1..d |-> Val(nvals + i, <<>>, "index", TRUE)],
          reductions |-> kinds]

RangeOf(seq) == {seq[i] : i \in DOMAIN seq}

WalkAffineParallel ==
    /\ pc = "body"
    /\ prog = <<>>
    /\ \E d \in 1..MaxParDims :
         \E kinds \in UNION {[1..r -> AtomicRMWKinds]
                               : r \in 1..MaxParResults} :
           /\ state' = emitBlockStep(state, ParallelOp(NextId, d, kinds),
                                     ndebug).st
           /\ prog' = Append(prog, ParallelOp(NextId, d, kinds))
           /\ stack' = Append(stack,
                              [kind |-> "affine.parallel", op |-> NextId,
                               defs |-> RangeOf(
                                 ParallelOp(NextId, d, kinds).ivs)])
           /\ nvals' = nvals + d + Len(kinds)
    /\ UNCHANGED <<pending, pc, ndebug, result>>
    /\ UNCHANGED <<bandVars, dseVars, tileVars, annVars>>

\* The operands a yield may return to the results of par: live values of
\* the results' types.
YieldOperands(par) ==
    {ops \in [1..Len(par.results) -> Live] :
       \A i \in 1..Len(par.results) : ops[i].elem = par.results[i].elem}

\* The yield of a parallel operation.
YieldOf(par, operands) ==
    Op("affine.yield", NextId, operands, <<>>) @@ [parent |-> par]

\* The terminator of the body of the affine.parallel, then what
\* emitAffineParallel does after emitBlock.
EndParallel ==
    /\ pc = "body"
    /\ stack[Len(stack)].kind = "affine.parallel"
    /\ \E operands \in YieldOperands(prog[stack[Len(stack)].op]) :
         /\ prog' = Append(prog,
                           YieldOf(prog[stack[Len(stack)].op], operands))
         /\ state' = emitAffineParallelTail(
                       emitBlockStep(
                         state,
                         YieldOf(prog[stack[Len(stack)].op], operands),
                         ndebug).st,
                       prog[stack[Len(stack)].op])
    /\ stack' = [SubSeq(stack, 1, Len(stack) - 1)
                   EXCEPT ![Len(stack) - 1].defs =
                     @ \cup RangeOf(prog[stack[Len(stack)].op].results)]
    /\ UNCHANGED <<pending, nvals, pc, ndebug, result>>
    /\ UNCHANGED <<bandVars, dseVars, tileVars, annVars>>

\* The return of the function.
EndParFunction ==
    /\ stack # <<>>
    /\ stack[Len(stack)].kind = "func"
    /\ prog # <<>>
    /\ EndBlock

ParNext ==
    \/ BeginParFunction
    \/ WalkAffineParallel
    \/ EndParallel
    \/ EndParFunction

SpecPar == EmitInit /\ [][ParNext]_vars

(***************************************************************************)
(* The emission of a function holding one conditional, scf.if or           *)
(* affine.if, with up to MaxIfResults results: scalars, statically shaped  *)
(* arrays or arrays of dynamic shape.  The arms may compute a value before *)
(* they yield.                                                             *)
(***************************************************************************)
MaxIfResults == 2

IfArgs ==
    <<Val(1, <<>>, "i1", TRUE), Val(2, <<>>, "f32", TRUE),
      Val(3, <<>>, "f32", TRUE), Val(4, <<16>>, "f32", TRUE),
      Val(5, <<-1>>, "f32", TRUE), Val(6, <<>>, "index", TRUE)>>

\* The constraint sets of the affine.if: d0 >= 0, alone or with
\* d0 - 1 == 0.
IfConstraintSets ==
    {<<[expr |-> [k |-> "dim", pos |-> 0], eq |-> FALSE]>>,
     <<[expr |-> [k |-> "dim", pos |-> 0], eq |-> FALSE],
       [expr |-> [k |-> "add", lhs |-> [k |-> "dim", pos |-> 0],
                  rhs |-> [k |-> "const", v |-> -1]],
        eq |-> TRUE]>>}

BeginIfFunction ==
    /\ pc = "module"
    /\ state' = emitFunctionHead(Text(state, Preamble, 0),
                                 FuncOf(IfArgs, FALSE))
    /\ stack' = <<[kind |-> "func", op |-> 0, defs |-> RangeOf(IfArgs)]>>
    /\ pending' = {}
    /\ nvals' = Len(IfArgs)
    /\ pc' = "body"
    /\ UNCHANGED <<prog, ndebug, result>>
    /\ UNCHANGED <<bandVars, dseVars, tileVars, annVars>>

\* A conditional whose results have the given shapes.
IfOp(kind, id, shapes, hasElse, constraints) ==
    Op(kind, id, IF kind = "scf.if" THEN <<IfArgs[1]>> ELSE <<IfArgs[6]>>,
       [i \in 1..Len(shapes) |-> Val(nvals + i, shapes[i], "f32", FALSE)])
      @@ [hasElse |-> hasElse, constraints |-> constraints, numDims |-> 1]

\* The conditionals walked: one with results has both arms.
IfOps ==
    {IfOp(c[1], NextId, shapes, hasElse, c[2]) :
       c \in ({"scf.if"} \X {<<>>}) \cup ({"affine.if"} \X IfConstraintSets),
       shapes \in UNION {[1..r -> {<<>>, <<16>>, <<-1>>}]
                           : r \in 0..MaxIfResults},
       hasElse \in BOOLEAN}

WalkIf ==
    /\ pc = "body"
    /\ stack[Len(stack)].kind = "func"
    /\ \A k \in DOMAIN prog : prog[k].kind \notin {"scf.if", "affine.if"}
    /\ \E op \in {o \in IfOps : o.results # <<>> => o.hasElse} :
         /\ state' = emitBlockStep(state, op, ndebug).st
         /\ prog' = Append(prog, op)
         /\ stack' = Append(stack, [kind |-> "if.then", op |-> NextId,
                                    defs |-> {}])
         /\ nvals' = nvals + Len(op.results)
    /\ UNCHANGED <<pending, pc, ndebug, result>>
    /\ UNCHANGED <<bandVars, dseVars, tileVars, annVars>>

\* The operands an arm may yield to the results of the conditional: live
\* values of the results' types.
IfYieldOperands(ifop) ==
    {ops \in [1..Len(ifop.results) -> Live] :
       \A i \in 1..Len(ifop.results) :
         /\ ops[i].elem = ifop.results[i].elem
         /\ ops[i].shape = ifop.results[i].shape}

\* The terminator of an arm.
IfYieldOf(ifop, operands) ==
    Op(IF ifop.kind = "scf.if" THEN "scf.yield" ELSE "affine.yield",
       NextId, operands, <<>>) @@ [parent |-> ifop]

\* The terminator of the then arm of a conditional with an else arm, then
\* what the emitter of the conditional does up to the else block.
EndThenArm ==
    /\ pc = "body"
    /\ stack[Len(stack)].kind = "if.then"
    /\ prog[stack[Len(stack)].op].hasElse
    /\ \E operands \in IfYieldOperands(prog[stack[Len(stack)].op]) :
         /\ prog' = Append(prog,
                           IfYieldOf(prog[stack[Len(stack)].op], operands))
         /\ state' = emitIfElse(
                       emitBlockStep(
                         state,
                         IfYieldOf(prog[stack[Len(stack)].op], operands),
                         ndebug).st,
                       stack[Len(stack)].op)
    /\ stack' = [stack EXCEPT ![Len(stack)] =
                   [kind |-> "if.else", op |-> @.op, defs |-> {}]]
    /\ UNCHANGED <<pending, nvals, pc, ndebug, result>>
    /\ UNCHANGED <<bandVars, dseVars, tileVars, annVars>>

\* The terminator of the last arm, then the closing brace.
EndLastArm ==
    /\ pc = "body"
    /\ \/ stack[Len(stack)].kind = "if.else"
       \/ /\ stack[Len(stack)].kind = "if.then"
          /\ ~prog[stack[Len(stack)].op].hasElse
    /\ \E operands \in IfYieldOperands(prog[stack[Len(stack)].op]) :
         /\ prog' = Append(prog,
                           IfYieldOf(prog[stack[Len(stack)].op], operands))
         /\ state' = emitIfTail(
                       emitBlockStep(
                         state,
                         IfYieldOf(prog[stack[Len(stack)].op], operands),
                         ndebug).st,
                       stack[Len(stack)].op)
    /\ stack' = [SubSeq(stack, 1, Len(stack) - 1)
                   EXCEPT ![Len(stack) - 1].defs =
                     @ \cup RangeOf(prog[stack[Len(stack)].op].results)]
    /\ UNCHANGED <<pending, nvals, pc, ndebug, result>>
    /\ UNCHANGED <<bandVars, dseVars, tileVars, annVars>>

\* An arm computes at most one value before it yields.
WalkAddFInArm ==
    /\ stack # <<>>
    /\ stack[Len(stack)].kind \in {"if.then", "if.else"}
    /\ stack[Len(stack)].defs = {}
    /\ WalkAddF

IfNext ==
    \/ BeginIfFunction
    \/ WalkIf
    \/ WalkAddFInArm
    \/ EndThenArm
    \/ EndLastArm
    \/ EndParFunction

SpecIf == EmitInit /\ [][IfNext]_vars

(***************************************************************************)
(* The emission of a function of element-wise operations (binary, unary,   *)
(* select) over scalars and over statically shaped arrays of rank 1 and 2. *)
(***************************************************************************)
MaxArrOps == 2

ArrShapes == {<<>>, <<16>>, <<4, 8>>}

ArrArgs ==
    <<Val(1, <<>>, "f32", TRUE), Val(2, <<>>, "f32", TRUE),
      Val(3, <<16>>, "f32", TRUE), Val(4, <<16>>, "f32", TRUE),
      Val(5, <<4, 8>>, "f32", TRUE), Val(6, <<4, 8>>, "f32", TRUE),
      Val(7, <<>>, "i1", TRUE), Val(8, <<16>>, "i1", TRUE)>>

BeginArrFunction ==
    /\ pc = "module"
    /\ state' = emitFunctionHead(Text(state, Preamble, 0),
                                 FuncOf(ArrArgs, FALSE))
    /\ stack' = <<[kind |-> "func", op |-> 0, defs |-> RangeOf(ArrArgs)]>>
    /\ pending' = {}
    /\ nvals' = Len(ArrArgs)
    /\ pc' = "body"
    /\ UNCHANGED <<prog, ndebug, result>>
    /\ UNCHANGED <<bandVars, dseVars, tileVars, annVars>>

\* The live values of element type elem and the given shape.
LiveOf(shape, elem) == {v \in Live : v.shape = shape /\ v.elem = elem}

\* The conditions of a select of the given shape: a scalar i1, or an i1
\* array of that shape.
SelectConditions(shape) == LiveOf(<<>>, "i1") \cup LiveOf(shape, "i1")

WalkArrBinary ==
    /\ NumOps(prog) < MaxArrOps
    /\ \E shape \in ArrShapes, kind \in {"addf", "mulf"} :
         \E x \in LiveOf(shape, "f32"), y \in LiveOf(shape, "f32") :
           Walk(Op(kind, NextId, <<x, y>>, <<Fresh(shape, "f32")>>),
                {Fresh(shape, "f32")}, "")

WalkArrUnary ==
    /\ NumOps(prog) < MaxArrOps
    /\ \E shape \in ArrShapes :
         \E x \in LiveOf(shape, "f32") :
           Walk(Op("absf", NextId, <<x>>, <<Fresh(shape, "f32")>>),
                {Fresh(shape, "f32")}, "")

WalkArrSelect ==
    /\ NumOps(prog) < MaxArrOps
    /\ \E shape \in ArrShapes :
         \E c \in SelectConditions(shape),
            x \in LiveOf(shape, "f32"), y \in LiveOf(shape, "f32") :
           Walk(Op("select", NextId, <<c, x, y>>, <<Fresh(shape, "f32")>>),
                {Fresh(shape, "f32")}, "")

ArrNext ==
    \/ BeginArrFunction
    \/ WalkArrBinary
    \/ WalkArrUnary
    \/ WalkArrSelect
    \/ EndParFunction

SpecArr == EmitInit /\ [][ArrNext]_vars

(***************************************************************************)
(* The emission of a function of scalar constants (float, finite or not,   *)
(* integer, bool) and of operations that use them.                         *)
(***************************************************************************)
MaxConstOps == 3

ConstArgs ==
    <<Val(1, <<>>, "f32", TRUE), Val(2, <<>>, "i1", TRUE),
      Val(3, <<>>, "i32", TRUE)>>

\* The scalar constants walked.
ScalarConsts(id) ==
    {ScalarConst(id, "f32", "float", c) : c \in {-1, 2}}
      \cup {ScalarConst(id, "f32", a, 0) : a \in {"inf", "-inf", "nan"}}
      \cup {ScalarConst(id, "i32", "int", c) : c \in {-3, 0}}
      \cup {ScalarConst(id, "i1", "bool", c) : c \in {0, 1}}

BeginConstFunction ==
    /\ pc = "module"
    /\ state' = emitFunctionHead(Text(state, Preamble, 0),
                                 FuncOf(ConstArgs, FALSE))
    /\ stack' = <<[kind |-> "func", op |-> 0, defs |-> RangeOf(ConstArgs)]>>
    /\ pending' = {}
    /\ nvals' = Len(ConstArgs)
    /\ pc' = "body"
    /\ UNCHANGED <<prog, ndebug, result>>
    /\ UNCHANGED <<bandVars, dseVars, tileVars, annVars>>

WalkScalarConstant ==
    /\ NumOps(prog) < MaxConstOps
    /\ \E r \in ScalarConsts(nvals + 1) :
         Walk([Op("constant", NextId, <<>>, <<r>>) EXCEPT !.pred = r.attr],
              {r}, "")

\* addf over floats, addi over integers: a constant may be either operand.
WalkConstBinary ==
    /\ NumOps(prog) < MaxConstOps
    /\ \E elem \in {"f32", "i32"} :
         \E x \in LiveOf(<<>>, elem), y \in LiveOf(<<>>, elem) :
           /\ x.const \/ y.const
           /\ Walk(Op(IF elem = "f32" THEN "addf" ELSE "addi", NextId,
                      <<x, y>>, <<Fresh(<<>>, elem)>>),
                   {Fresh(<<>>, elem)}, "")

\* A select whose condition or value is a constant.
WalkConstSelect ==
    /\ NumOps(prog) < MaxConstOps
    /\ \E c \in LiveOf(<<>>, "i1"),
          x \in LiveOf(<<>>, "f32"), y \in LiveOf(<<>>, "f32") :
         /\ c.const \/ y.const
         /\ ~x.const
         /\ Walk(Op("select", NextId, <<c, x, y>>, <<Fresh(<<>>, "f32")>>),
                 {Fresh(<<>>, "f32")}, "")

ConstNext ==
    \/ BeginConstFunction
    \/ WalkScalarConstant
    \/ WalkConstBinary
    \/ WalkConstSelect
    \/ EndParFunction

SpecConst == EmitInit /\ [][ConstNext]_vars

(***************************************************************************)
(* The emission of a function of four vectors whose body is one swap       *)
(* primitive, its four operands drawn from the arguments in any order.     *)
(***************************************************************************)
MaxSwapOps == 1

\* The arguments %x, %y, %xRes, %yRes of test_swap, memref<16xf32> or
\* memref<16xf64>.
SwapArgs(elem) == [i \in 1..4 |-> Val(i, <<16>>, elem, TRUE)]

BeginSwapFunction ==
    /\ pc = "module"
    /\ \E top \in BOOLEAN, elem \in {"f32", "f64"} :
         /\ state' = emitFunctionHead(Text(state, Preamble, 0),
                                      FuncOf(SwapArgs(elem), top))
         /\ stack' = <<[kind |-> "func", op |-> 0,
                        defs |-> RangeOf(SwapArgs(elem))]>>
    /\ pending' = {}
    /\ nvals' = 4
    /\ pc' = "body"
    /\ UNCHANGED <<prog, ndebug, result>>
    /\ UNCHANGED <<bandVars, dseVars, tileVars, annVars>>

WalkSwapIP ==
    /\ pc = "body"
    /\ NumOps(prog) < MaxSwapOps
    /\ \E operands \in [1..4 -> LiveArrays] :
         Walked(emitBlockStep(state,
                              Op("hlskernel.swap", NextId, operands, <<>>),
                              ndebug),
                Op("hlskernel.swap", NextId, operands, <<>>), {}, "")

SwapNext ==
    \/ BeginSwapFunction
    \/ WalkSwapIP
    \/ EndBlock

SpecSwap == EmitInit /\ [][SwapNext]_vars

(***************************************************************************)
(* The emission of a function of one affine.apply whose map has two        *)
(* dimensions and one symbol and one result, an expression of depth up to  *)
(* MaxExprDepth.                                                           *)
(***************************************************************************)
MaxExprDepth == 2

MaxAffineOps == 1

\* The operands of the affine.apply: d0, d1 and s0.
AffineArgs == [i \in 1..3 |-> Val(i, <<>>, "index", TRUE)]

AffineConst(c) == [k |-> "const", v |-> c]

AffineLeaves ==
    {[k |-> "dim", pos |-> 0], [k |-> "dim", pos |-> 1],
     [k |-> "sym", pos |-> 0]}
      \cup {AffineConst(c) : c \in {-3, -1, 2}}

\* The right operands of an addition next to the leaves: y * -1.
NegatedDims ==
    {[k |-> "mul", lhs |-> [k |-> "dim", pos |-> p], rhs |-> AffineConst(-1)]
       : p \in {0, 1}}

\* The expressions with left operand in lhs: a sum with any leaf or negated
\* dimension, a product with a constant or the symbol, and mod, floordiv
\* and ceildiv by a positive constant.
AffineBinaries(lhs) ==
    {[k |-> "add", lhs |-> l, rhs |-> r]
       : l \in lhs, r \in AffineLeaves \cup NegatedDims}
      \cup {[k |-> "mul", lhs |-> l, rhs |-> r]
              : l \in lhs, r \in {e \in AffineLeaves : e.k # "dim"}}
      \cup {[k |-> kind, lhs |-> l, rhs |-> AffineConst(2)]
              : l \in lhs, kind \in {"mod", "floordiv", "ceildiv"}}

RECURSIVE AffineExprs(_)
AffineExprs(depth) ==
    IF depth = 0 THEN AffineLeaves
    ELSE AffineExprs(depth - 1) \cup AffineBinaries(AffineExprs(depth - 1))

BeginAffineFunction ==
    /\ pc = "module"
    /\ \E top \in BOOLEAN :
         state' = emitFunctionHead(Text(state, Preamble, 0),
                                   FuncOf(AffineArgs, top))
    /\ stack' = <<[kind |-> "func", op |-> 0, defs |-> RangeOf(AffineArgs)]>>
    /\ pending' = {}
    /\ nvals' = Len(AffineArgs)
    /\ pc' = "body"
    /\ UNCHANGED <<prog, ndebug, result>>
    /\ UNCHANGED <<bandVars, dseVars, tileVars, annVars>>

AffineApplyOp(id, expr) ==
    Op("affine.apply", id, AffineArgs, <<Fresh(<<>>, "index")>>)
      @@ [map |-> expr, numDims |-> 2]

WalkAffineApply ==
    /\ pc = "body"
    /\ NumOps(prog) < MaxAffineOps
    /\ \E expr \in AffineExprs(MaxExprDepth) :
         Walked(emitBlockStep(state, AffineApplyOp(NextId, expr), ndebug),
                AffineApplyOp(NextId, expr), {Fresh(<<>>, "index")}, "")

AffineNext ==
    \/ BeginAffineFunction
    \/ WalkAffineApply
    \/ EndBlock

SpecAffine == EmitInit /\ [][AffineNext]_vars

(***************************************************************************)
(* The emission of a function after annotation: next to additions, its     *)
(* body holds the operations ConvertToHLSCpp inserts, an hlscpp.array      *)
(* after an array value and an hlscpp.assign that defines a returned       *)
(* value.                                                                  *)
(***************************************************************************)
\* builder.create<ArrayOp>(loc, operand.getType(), operand)
WalkArrayWrapper ==
    \E a \in LiveArrays :
      Walk(Op("hlscpp.array", NextId, <<a>>, <<Fresh(a.shape, a.elem)>>),
           {Fresh(a.shape, a.elem)}, "")

\* b.create<AssignOp>(loc, operand.getType(), operand): its result is an
\* operand of the return.
WalkAssignWrapper ==
    \E v \in Live, r \in pending :
      /\ v.shape = r.shape
      /\ v.elem = r.elem
      /\ Walk(Op("hlscpp.assign", NextId, <<v>>, <<r>>), {r}, "")

WrapNext ==
    \/ BeginFunction
    \/ WalkArrayWrapper
    \/ WalkAssignWrapper
    \/ WalkAddF
    \/ EndBlock

SpecWrap == EmitInit /\ [][WrapNext]_vars

(***************************************************************************)
(* Specification of the band predicates: every vector up to MaxBandLen is  *)
(* an input, each predicate is one call.                                   *)
(***************************************************************************)
BandInit ==
    /\ bandState \in BandStates
    /\ bandCalled = {}
    /\ frozenRes = FALSE
    /\ coldRes = FALSE
    /\ oneHotRes = FALSE
    /\ EmitIdle
    /\ DSEIdle
    /\ TileIdle
    /\ AnnIdle

CallIsFrozen ==
    /\ "frozen" \notin bandCalled
    /\ frozenRes' = loopBandIsFrozen(bandState)
    /\ bandCalled' = bandCalled \cup {"frozen"}
    /\ UNCHANGED <<bandState, coldRes, oneHotRes>>
    /\ UNCHANGED <<emitVars, dseVars, tileVars, annVars>>

CallIsColdOrFrozen ==
    /\ "cold" \notin bandCalled
    /\ coldRes' = loopBandIsColdOrFrozen(bandState)
    /\ bandCalled' = bandCalled \cup {"cold"}
    /\ UNCHANGED <<bandState, frozenRes, oneHotRes>>
    /\ UNCHANGED <<emitVars, dseVars, tileVars, annVars>>

CallIsOneHot ==
    /\ "onehot" \notin bandCalled
    /\ oneHotRes' = loopBandIsOneHot(bandState)
    /\ bandCalled' = bandCalled \cup {"onehot"}
    /\ UNCHANGED <<bandState, frozenRes, coldRes>>
    /\ UNCHANGED <<emitVars, dseVars, tileVars, annVars>>

BandNext ==
    \/ CallIsFrozen
    \/ CallIsColdOrFrozen
    \/ CallIsOneHot

SpecBand == BandInit /\ [][BandNext]_vars

(***************************************************************************)
(* HLSCppOptimizer::applyMultipleLevelDSE, the per-band search under the   *)
(* DSP budget numDSP.  Bands are searched one after the other.  A band     *)
(* starts with every position COLD and every tile size 1; each trial grows *)
(* one position with incrTileSizeAtLoc, applies the tiling and estimates   *)
(* it; the estimate (latency, dsp) is whatever the estimator returns.      *)
(***************************************************************************)
NumBands == 2

\* Loops per band.
MaxLoops == 2

MaxTripCount == 3

\* The trip counts of the loops of a band: a loop that cannot be tiled and
\* one that takes more than one growth step to exhaust.
TripCounts == {1, MaxTripCount}

MaxLatency == 2

\* Estimated DSP usage ranges over 0..MaxDSP, the budget over 1..MaxDSP - 1.
MaxDSP == 2

Min(a, b) == IF a <= b THEN a ELSE b

Estimates == [latency : 1..MaxLatency, dsp : 0..MaxDSP]

InitialBand(tc) ==
    [tripCounts |-> tc,
     tileSizes |-> [i \in DOMAIN tc |-> 1],
     bandState |-> [i \in DOMAIN tc |-> COLD],
     rejected |-> {},
     best |-> [latency |-> 0, dsp |-> 0],
     accepted |-> <<>>]

\* Mutant: the growth step is not bounded by the trip count.
incrTileSizeAtLocUncapped(tileSizes, tripCounts, loc) ==
    [tileSizes EXCEPT ![loc] = 2 * @]

\* One growth step at position loc: the tile size doubled, bounded by the
\* trip count of the position.
incrTileSizeAtLoc(tileSizes, tripCounts, loc) ==
    [tileSizes EXCEPT ![loc] = Min(2 * @, tripCounts[loc])]

\* The positions a trial may still grow: not FROZEN, below the trip count,
\* and not yet rejected at the current tile sizes.
Growable(b) ==
    {p \in DOMAIN b.tileSizes :
        /\ b.bandState[p] # FROZEN
        /\ b.tileSizes[p] < b.tripCounts[p]
        /\ p \notin b.rejected}

\* Mutant: the budget is not compared.
AcceptTrialNoBudget(est, best, budget) ==
    \/ est.latency < best.latency
    \/ est.latency = best.latency /\ est.dsp <= best.dsp

\* Accept iff DSP usage is within the budget and latency improves, or ties
\* with no DSP regression.
AcceptTrial(est, best, budget) ==
    /\ est.dsp <= budget
    /\ \/ est.latency < best.latency
       \/ est.latency = best.latency /\ est.dsp <= best.dsp

\* The band after one trial that grew position loc and was estimated est.
TrialResult(b, loc, est, budget) ==
    IF AcceptTrial(est, b.best, budget)
    THEN [b EXCEPT
            !.tileSizes = incrTileSizeAtLoc(b.tileSizes, b.tripCounts, loc),
            !.bandState[loc] =
                IF incrTileSizeAtLoc(b.tileSizes, b.tripCounts, loc)[loc]
                     = b.tripCounts[loc]
                THEN FROZEN ELSE HOT,
            !.rejected = {},
            !.best = est,
            !.accepted = Append(@, est)]
    ELSE [b EXCEPT !.bandState[loc] = COLD, !.rejected = @ \cup {loc}]

\* Mutant: a trial whose tiling or pipelining failed is evaluated like any
\* other.
TrialOutcomeIgnoreFailure(b, loc, ok, est, budget) ==
    TrialResult(b, loc, est, budget)

\* The band after one trial: ok is what applyLoopTilingStrategy returned; a
\* failed transformation discards the trial, the grown position goes COLD
\* and the tile sizes stay as they were.
TrialOutcome(b, loc, ok, est, budget) ==
    IF ok THEN TrialResult(b, loc, est, budget)
    ELSE [b EXCEPT !.bandState[loc] = COLD, !.rejected = @ \cup {loc}]

\* A band stops when it is frozen, or cold-or-frozen with nothing left to
\* grow.
BandStopped(b) ==
    \/ loopBandIsFrozen(b.bandState)
    \/ loopBandIsColdOrFrozen(b.bandState) /\ Growable(b) = {}

DSEInit ==
    /\ numDSP \in 1..(MaxDSP - 1)
    /\ bands \in [1..NumBands ->
                    {InitialBand(tc) : tc \in [1..MaxLoops -> TripCounts]}]
    /\ cur = 1
    /\ dsePc = "start"
    /\ BandIdle
    /\ EmitIdle
    /\ TileIdle
    /\ AnnIdle

\* The estimate of the untiled band, the first best-so-far.
EstimateBand ==
    /\ dsePc = "start"
    /\ \E est \in Estimates : bands' = [bands EXCEPT ![cur].best = est]
    /\ dsePc' = "search"
    /\ UNCHANGED <<numDSP, cur>>
    /\ UNCHANGED <<bandVars, emitVars, tileVars, annVars>>

\* One trial: grow a position, estimate, accept or reject.
Trial ==
    /\ dsePc = "search"
    /\ ~BandStopped(bands[cur])
    /\ \E loc \in Growable(bands[cur]), ok \in BOOLEAN, est \in Estimates :
         bands' = [bands EXCEPT
                     ![cur] = TrialOutcome(@, loc, ok, est, numDSP)]
    /\ UNCHANGED <<numDSP, cur, dsePc>>
    /\ UNCHANGED <<bandVars, emitVars, tileVars, annVars>>

\* The band has stopped: the next band, or the end of the DSE.
NextBand ==
    /\ dsePc = "search"
    /\ BandStopped(bands[cur])
    /\ IF cur < Len(bands)
       THEN cur' = cur + 1 /\ dsePc' = "start"
       ELSE cur' = cur /\ dsePc' = "done"
    /\ UNCHANGED <<numDSP, bands>>
    /\ UNCHANGED <<bandVars, emitVars, tileVars, annVars>>

DSENext ==
    \/ EstimateBand
    \/ Trial
    \/ NextBand

\* The optimizer is one synchronous pass that runs to completion: a step
\* that can be taken is taken.
SpecDSE == DSEInit /\ [][DSENext]_vars /\ WF_vars(DSENext)

(***************************************************************************)
(* The search of a single band with the last trial on record: the position *)
(* grown, what applyLoopTilingStrategy returned, the estimate, and the     *)
(* tile sizes and best estimate before the trial.                          *)
(***************************************************************************)
NoTrial ==
    [loc |-> 0, ok |-> FALSE, est |-> [latency |-> 0, dsp |-> 0],
     before |-> <<>>, best |-> [latency |-> 0, dsp |-> 0]]

DSETrialInit ==
    /\ numDSP \in 1..(MaxDSP - 1)
    /\ bands \in {<<InitialBand(tc) @@ [last |-> NoTrial]>>
                    : tc \in [1..MaxLoops -> TripCounts]}
    /\ cur = 1
    /\ dsePc = "start"
    /\ BandIdle
    /\ EmitIdle
    /\ TileIdle
    /\ AnnIdle

\* One trial, kept on record.
TrialOnRecord ==
    /\ dsePc = "search"
    /\ ~BandStopped(bands[cur])
    /\ \E loc \in Growable(bands[cur]), ok \in BOOLEAN, est \in Estimates :
         bands' = [bands EXCEPT
                     ![cur] = [TrialOutcome(@, loc, ok, est, numDSP)
                                 EXCEPT !.last =
                                   [loc |-> loc, ok |-> ok, est |-> est,
                                    before |-> bands[cur].tileSizes,
                                    best |-> bands[cur].best]]]
    /\ UNCHANGED <<numDSP, cur, dsePc>>
    /\ UNCHANGED <<bandVars, emitVars, tileVars, annVars>>

DSETrialNext ==
    \/ EstimateBand
    \/ TrialOnRecord
    \/ NextBand

SpecDSETrial ==
    DSETrialInit /\ [][DSETrialNext]_vars /\ WF_vars(DSETrialNext)

(***************************************************************************)
(* tile(loop, factor) of the loop-transform driver, and the enumeration of *)
(* the outer/inner pair it produces: the outer loop runs ceil(N / F)       *)
(* times, the inner loop from the tile origin to min(origin + F, N).       *)
(***************************************************************************)
MaxTrip == 6

\* Mutant: the inner loop is not clipped at the original bound.
InnerTripUnclipped(n, f, o) == f

\* Trip count of the inner loop in outer iteration o.
InnerTrip(n, f, o) == Min(f, n - o * f)

TileInit ==
    /\ tripN \in 1..MaxTrip
    /\ factor \in 0..tripN
    /\ outerTrip = 0
    /\ outerIv = 0
    /\ innerIv = 0
    /\ visited = <<>>
    /\ tilePc = "loop"
    /\ BandIdle
    /\ EmitIdle
    /\ DSEIdle
    /\ AnnIdle

\* tile(loop, factor): fails on a factor that is not positive.
TileLoop ==
    /\ tilePc = "loop"
    /\ IF factor <= 0
       THEN tilePc' = "failed" /\ outerTrip' = outerTrip
       ELSE tilePc' = "run" /\ outerTrip' = (tripN + factor - 1) \div factor
    /\ UNCHANGED <<tripN, factor, outerIv, innerIv, visited>>
    /\ UNCHANGED <<bandVars, emitVars, dseVars, annVars>>

\* One iteration of the inner loop: original index outerIv * F + innerIv.
InnerIter ==
    /\ tilePc = "run"
    /\ innerIv < InnerTrip(tripN, factor, outerIv)
    /\ visited' = Append(visited, outerIv * factor + innerIv)
    /\ innerIv' = innerIv + 1
    /\ UNCHANGED <<tripN, factor, outerTrip, outerIv, tilePc>>
    /\ UNCHANGED <<bandVars, emitVars, dseVars, annVars>>

\* The inner loop has ended: the next outer iteration, or the end.
OuterIter ==
    /\ tilePc = "run"
    /\ innerIv >= InnerTrip(tripN, factor, outerIv)
    /\ outerIv' = outerIv + 1
    /\ innerIv' = 0
    /\ tilePc' = IF outerIv + 1 >= outerTrip THEN "done" ELSE "run"
    /\ UNCHANGED <<tripN, factor, outerTrip, visited>>
    /\ UNCHANGED <<bandVars, emitVars, dseVars, annVars>>

TileNext ==
    \/ TileLoop
    \/ InnerIter
    \/ OuterIter

SpecTile == TileInit /\ [][TileNext]_vars

(***************************************************************************)
(* ConvertToHLSCpp::runOnOperation (the Annotator pass) on one function.   *)
(* The function body is the sequence of its operations in program order;   *)
(* an operation is a record: id, kind, operands (values), rtype (type of   *)
(* its one result, "none" without result), parent (0: the function's       *)
(* block, else the id of the affine.for whose body holds it) and its       *)
(* attributes ("absent" | "true" | "false").  A value is <<"arg", k>>, the *)
(* k-th argument of the function's block, or <<"res", id>>, the result of  *)
(* operation id.  Types: "array" a ShapedType with static shape, "dyn" a   *)
(* ShapedType without, "scalar" anything else.                             *)
(***************************************************************************)
\* Operations of the function handed to the pass, the return not counted.
MaxAnnOps == 2

ArgTypes == <<"array", "dyn", "scalar">>

AnnOp(id, kind, operands, rtype, parent) ==
    [id |-> id, kind |-> kind, operands |-> operands, rtype |-> rtype,
     parent |-> parent, pipeline |-> "absent", unroll |-> "absent",
     flatten |-> "absent", interface |-> "absent", storage |-> "absent",
     partition |-> "absent"]

OpPos(ops, id) == CHOOSE i \in DOMAIN ops : ops[i].id = id

OpById(ops, id) == ops[OpPos(ops, id)]

\* operand.getKind() == Value::Kind::BlockArgument
IsBlockArgument(v) == v[1] = "arg"

\* operand.getType()
TypeOf(ops, v) ==
    IF IsBlockArgument(v) THEN ArgTypes[v[2]] ELSE OpById(ops, v[2]).rtype

\* operand.getType().dyn_cast<ShapedType>()
IsShapedType(t) == t \in {"array", "dyn"}

\* The kind of operand.getDefiningOp(), for a value that has one.
DefKind(ops, v) == OpById(ops, v[2]).kind

\* The block that holds the definition of a value.
DefBlock(ops, v) ==
    IF IsBlockArgument(v) THEN 0 ELSE OpById(ops, v[2]).parent

\* The users of a value.
Users(ops, v) ==
    {ops[i].id : i \in {j \in DOMAIN ops :
                          \E k \in DOMAIN ops[j].operands :
                              ops[j].operands[k] = v}}

InsertAt(ops, i, op) ==
    SubSeq(ops, 1, i - 1) \o <<op>> \o SubSeq(ops, i, Len(ops))

\* Operation::setOperand
SetOperand(ops, id, idx, v) ==
    [i \in DOMAIN ops |->
       IF ops[i].id = id THEN [ops[i] EXCEPT !.operands[idx] = v]
       ELSE ops[i]]

\* Value::replaceAllUsesExcept(newValue, {exception})
ReplaceAllUsesExcept(ops, v, new, except) ==
    [i \in DOMAIN ops |->
       IF ops[i].id = except THEN ops[i]
       ELSE [ops[i] EXCEPT !.operands =
               [k \in DOMAIN @ |-> IF @[k] = v THEN new ELSE @[k]]]]

\* The pass works on [ops, next, errs]: the operations, the id of the next
\* operation created, the diagnostics emitted.
\* b.create<AssignOp>(loc, operand.getType(), operand) before the return
\* (the last operation of the function's block), then setOperand(idx, value).
InsertAssign(ir, ret, idx, v) ==
    [ops |-> InsertAt(SetOperand(ir.ops, ret, idx, <<"res", ir.next>>),
                      Len(ir.ops),
                      AnnOp(ir.next, "hlscpp.assign", <<v>>,
                            TypeOf(ir.ops, v), 0)),
     next |-> ir.next + 1,
     errs |-> ir.errs]

\* Mutant: only a returned block argument is wrapped.
NeedsAssignArgOnly(ops, v) == IsBlockArgument(v)

\* The test of the loop over the operands of the return.
NeedsAssign(ops, v) ==
    IsBlockArgument(v) \/ DefKind(ops, v) = "constant"

\* The loop over returnOp.getOperands(), from operand idx on.
RECURSIVE InsertAssigns(_, _, _)
InsertAssigns(ir, ret, idx) ==
    IF idx > Len(OpById(ir.ops, ret).operands) THEN ir
    ELSE IF NeedsAssign(ir.ops, OpById(ir.ops, ret).operands[idx])
    THEN InsertAssigns(
           InsertAssign(ir, ret, idx, OpById(ir.ops, ret).operands[idx]),
           ret, idx + 1)
    ELSE InsertAssigns(ir, ret, idx + 1)

\* builder.setInsertionPointAfterValue(operand): the start of the block for
\* a block argument, else right after the defining operation.
InsertionPointAfterValue(ops, v) ==
    IF IsBlockArgument(v) THEN 1 ELSE OpPos(ops, v[2]) + 1

\* builder.create<ArrayOp>(...), replaceAllUsesExcept, and the three
\* attributes: the new operation carries none, so each is set to false.
InsertArrayOp(ir, v) ==
    [ops |-> InsertAt(
               ReplaceAllUsesExcept(ir.ops, v, <<"res", ir.next>>, ir.next),
               InsertionPointAfterValue(ir.ops, v),
               [AnnOp(ir.next, "hlscpp.array", <<v>>, TypeOf(ir.ops, v),
                      DefBlock(ir.ops, v))
                  EXCEPT !.interface = "false", !.storage = "false",
                         !.partition = "false"]),
     next |-> ir.next + 1,
     errs |-> ir.errs]

\* Mutant: a block argument is never wrapped.
InsertArrayOpFlagNoArg(ops, o, v) ==
    /\ ~IsBlockArgument(v)
    /\ DefKind(ops, v) \notin {"hlscpp.array", "hlscpp.assign"}
    /\ OpById(ops, o).kind # "hlscpp.array"

\* The value of insertArrayOp for operand v of operation o.
InsertArrayOpFlag(ops, o, v) ==
    /\ \/ IsBlockArgument(v)
       \/ DefKind(ops, v) \notin {"hlscpp.array", "hlscpp.assign"}
    /\ OpById(ops, o).kind # "hlscpp.array"

\* The diagnostic on the defining operation of an unwrapped operand without
\* static shape.
DynamicShapeError(ir, v) ==
    IF /\ ~IsBlockArgument(v)
       /\ DefKind(ir.ops, v) \notin {"hlscpp.array", "hlscpp.assign"}
       /\ TypeOf(ir.ops, v) = "dyn"
    THEN [ir EXCEPT !.errs =
            Append(@, [op |-> v[2],
                       msg |-> "is unranked or has dynamic shape which is illegal."])]
    ELSE ir

\* The body of the loop over op->getOperands() for one operand.
WrapOperand(ir, o, v) ==
    IF ~IsShapedType(TypeOf(ir.ops, v)) THEN ir
    ELSE IF InsertArrayOpFlag(ir.ops, o, v)
    THEN InsertArrayOp(DynamicShapeError(ir, v), v)
    ELSE DynamicShapeError(ir, v)

\* The loop over op->getOperands(), from operand k on; the operand is read
\* from the operation as it stands when the iteration reaches it.
RECURSIVE WrapOperands(_, _, _)
WrapOperands(ir, o, k) ==
    IF k > Len(OpById(ir.ops, o).operands) THEN ir
    ELSE WrapOperands(WrapOperand(ir, o, OpById(ir.ops, o).operands[k]),
                      o, k + 1)

\* Mutant: a dataflow attribute that is present is kept.
SetDataflowKeep(attr) == IF attr = "absent" THEN "false" ELSE attr

\* func.setAttr("dataflow", b.getBoolAttr(false));
SetDataflow(attr) == "false"

\* Mutant: the attribute is set to false whether or not it is present.
SetDefaultAlways(attr) == "false"

\* if (!forOp.getAttr(name)) forOp.setAttr(name, getBoolAttr(false));
SetDefault(attr) == IF attr = "absent" THEN "false" ELSE attr

\* The loop pragma attributes of an AffineForOp.
SetLoopAttrs(ops, o) ==
    [i \in DOMAIN ops |->
       IF ops[i].id = o /\ ops[i].kind = "affine.for"
       THEN [ops[i] EXCEPT !.pipeline = SetDefault(@),
                           !.unroll = SetDefault(@),
                           !.flatten = SetDefault(@)]
       ELSE ops[i]]

\* The callback of func.walk on operation o.
WalkCallback(ir, o) ==
    [WrapOperands(ir, o, 1) EXCEPT !.ops = SetLoopAttrs(@, o)]

\* The order in which func.walk visits the operations of block b: post
\* order, the operations nested in an operation before the operation.
RECURSIVE PostOrder(_, _, _)
PostOrder(ops, b, i) ==
    IF i > Len(ops) THEN <<>>
    ELSE IF ops[i].parent = b
    THEN PostOrder(ops, ops[i].id, 1) \o <<ops[i].id>>
           \o PostOrder(ops, b, i + 1)
    ELSE PostOrder(ops, b, i + 1)

(***************************************************************************)
(* The functions handed to the pass: up to MaxAnnOps operations and the    *)
(* return.  Operands are values that dominate the operation; the           *)
(* affine.yield that ends a loop body has no operands and is left out.     *)
(***************************************************************************)
RECURSIVE AncestorsOrSelf(_, _)
AncestorsOrSelf(ops, b) ==
    IF b = 0 THEN {0}
    ELSE {b} \cup AncestorsOrSelf(ops, OpById(ops, b).parent)

\* The blocks the next operation of the listing can belong to.
OpenBlocks(ops) ==
    IF ops = <<>> THEN {0}
    ELSE AncestorsOrSelf(ops, ops[Len(ops)].parent)
           \cup (IF ops[Len(ops)].kind = "affine.for"
                 THEN {ops[Len(ops)].id} ELSE {})

\* The values an operation appended to block b can use.
Visible(ops, b) ==
    {<<"arg", k>> : k \in DOMAIN ArgTypes}
      \cup {<<"res", ops[i].id>> :
              i \in {j \in DOMAIN ops :
                       /\ ops[j].rtype # "none"
                       /\ ops[j].parent \in AncestorsOrSelf(ops, b)}}

\* <<pipeline, unroll, flatten>> of a loop handed to the pass.
LoopAttrChoices ==
    {<<"absent", "absent", "absent">>, <<"true", "absent", "false">>,
     <<"absent", "true", "true">>}

\* The operations that can follow the listing ops.
NextOps(ops) ==
    UNION {
      {AnnOp(Len(ops) + 1, "alloc", <<>>, t, b) : t \in {"array", "dyn"}}
        \cup {AnnOp(Len(ops) + 1, "constant", <<>>, t, b)
                : t \in {"array", "scalar"}}
        \cup {AnnOp(Len(ops) + 1, "addf", xy, TypeOf(ops, xy[1]), b)
                : xy \in {zs \in Visible(ops, b) \X Visible(ops, b) :
                            TypeOf(ops, zs[1]) = TypeOf(ops, zs[2])}}
        \cup {AnnOp(Len(ops) + 1, "hlscpp.array", <<x>>, TypeOf(ops, x), b)
                : x \in {z \in Visible(ops, b) :
                           IsShapedType(TypeOf(ops, z))}}
        \cup {[AnnOp(Len(ops) + 1, "affine.for", <<>>, "none", b)
                 EXCEPT !.pipeline = a[1], !.unroll = a[2],
                        !.flatten = a[3]] : a \in LoopAttrChoices}
      : b \in OpenBlocks(ops)}

RECURSIVE Programs(_)
Programs(n) ==
    IF n = 0 THEN {<<>>}
    ELSE UNION {{Append(ops, op) : op \in NextOps(ops)}
                  : ops \in Programs(n - 1)}
           \cup Programs(n - 1)

\* The operand lists of the return: none, one or two values of the
\* function's block.
ReturnOperands(ops) ==
    {<<>>} \cup {<<v>> : v \in Visible(ops, 0)}
      \cup {<<v, w>> : v \in Visible(ops, 0), w \in Visible(ops, 0)}

\* The functions of up to n operations before their return.
AnnInputs(n) ==
    UNION {{Append(ops, AnnOp(Len(ops) + 1, "return", rs, "none", 0))
              : rs \in ReturnOperands(ops)}
             : ops \in Programs(n)}

(***************************************************************************)
(* One run of the pass on one function.                                    *)
(***************************************************************************)
AnnInit ==
    /\ annIn \in AnnInputs(MaxAnnOps)
    /\ annOps = annIn
    /\ annDataflow \in {"absent", "true", "false"}
    /\ annDataflowIn = annDataflow
    /\ annRun = 1
    /\ annTodo = <<>>
    /\ annNext = Len(annIn) + 1
    /\ annErrs = <<>>
    /\ annPc = "start"
    /\ BandIdle
    /\ EmitIdle
    /\ DSEIdle
    /\ TileIdle

\* runOnOperation up to func.walk: the dataflow attribute, the AssignOps
\* before the return; then the walk order is fixed.
AnnotateFunction ==
    /\ annPc = "start"
    /\ annDataflow' = SetDataflow(annDataflow)
    /\ annOps' = InsertAssigns([ops |-> annOps, next |-> annNext,
                                errs |-> annErrs],
                               annOps[Len(annOps)].id, 1).ops
    /\ annNext' = InsertAssigns([ops |-> annOps, next |-> annNext,
                                 errs |-> annErrs],
                                annOps[Len(annOps)].id, 1).next
    /\ annTodo' = PostOrder(annOps', 0, 1)
    /\ annPc' = "walk"
    /\ UNCHANGED <<annIn, annDataflowIn, annRun, annErrs>>
    /\ UNCHANGED <<bandVars, emitVars, dseVars, tileVars>>

\* func.walk calls the callback on the next operation.
AnnVisit ==
    /\ annPc = "walk"
    /\ annOps' = WalkCallback([ops |-> annOps, next |-> annNext,
                               errs |-> annErrs], Head(annTodo)).ops
    /\ annNext' = WalkCallback([ops |-> annOps, next |-> annNext,
                                errs |-> annErrs], Head(annTodo)).next
    /\ annErrs' = WalkCallback([ops |-> annOps, next |-> annNext,
                                errs |-> annErrs], Head(annTodo)).errs
    /\ annTodo' = Tail(annTodo)
    /\ annPc' = IF Tail(annTodo) = <<>> THEN "done" ELSE "walk"
    /\ UNCHANGED <<annIn, annDataflow, annDataflowIn, annRun>>
    /\ UNCHANGED <<bandVars, emitVars, dseVars, tileVars>>

AnnNext ==
    \/ AnnotateFunction
    \/ AnnVisit

SpecAnn == AnnInit /\ [][AnnNext]_vars

(***************************************************************************)
(* The pass run again on the function it has produced.                     *)
(***************************************************************************)
\* Runs of the pass on one function.
MaxAnnRuns == 2

\* The pass manager enters runOnOperation again: the function as it stands
\* is the one handed to the pass, builders go on numbering operations.
AnnRerun ==
    /\ annPc = "done"
    /\ annRun < MaxAnnRuns
    /\ annIn' = annOps
    /\ annDataflowIn' = annDataflow
    /\ annRun' = annRun + 1
    /\ annErrs' = <<>>
    /\ annPc' = "start"
    /\ UNCHANGED <<annOps, annDataflow, annTodo, annNext>>
    /\ UNCHANGED <<bandVars, emitVars, dseVars, tileVars>>

AnnRerunNext ==
    \/ AnnotateFunction
    \/ AnnVisit
    \/ AnnRerun

SpecAnnRerun == AnnInit /\ [][AnnRerunNext]_vars

(***************************************************************************)
(* C1: for every band-state vector over {HOT, COLD, FROZEN}, the empty     *)
(* vector included, loopBandIsFrozen is true iff every element is FROZEN,  *)
(* loopBandIsColdOrFrozen is true iff no element is HOT, and               *)
(* loopBandIsOneHot is true iff exactly one element is HOT.                *)
(***************************************************************************)
C1_BandPredicates ==
    /\ "frozen" \in bandCalled =>
         (frozenRes <=> \A i \in 1..Len(bandState) : bandState[i] = FROZEN)
    /\ "cold" \in bandCalled =>
         (coldRes <=> ~ \E i \in 1..Len(bandState) : bandState[i] = HOT)
    /\ "onehot" \in bandCalled =>
         (oneHotRes <=>
            Cardinality({i \in 1..Len(bandState) : bandState[i] = HOT}) = 1)

\* All three predicates evaluated on a vector with two HOT positions and on
\* one that is neither frozen nor cold.
C1_Witness ==
    /\ bandCalled = {"frozen", "cold", "onehot"}
    /\ Len(bandState) = MaxBandLen
    /\ Cardinality({i \in 1..Len(bandState) : bandState[i] = HOT}) = 2
    /\ \E i \in 1..Len(bandState) : bandState[i] = FROZEN
    /\ ~oneHotRes /\ ~coldRes /\ ~frozenRes

C3_UseIsNamedBefore ==
    \A k \in DOMAIN state.os :
        state.os[k].role = "use" =>
            /\ state.os[k].t = "name"
            /\ state.os[k].txt # ""

(***************************************************************************)
(* C4: across the sequence of accepted trials for one band in              *)
(* applyMultipleLevelDSE, the estimated DSP usage of every accepted trial  *)
(* is at most numDSP, and the estimated latency of each accepted trial is  *)
(* less than or equal to that of the previously accepted trial.            *)
(***************************************************************************)
C4_AcceptedTrialsMonotone ==
    \A b \in DOMAIN bands :
        \A k \in DOMAIN bands[b].accepted :
            /\ bands[b].accepted[k].dsp <= numDSP
            /\ k > 1 =>
                 bands[b].accepted[k].latency
                    <= bands[b].accepted[k - 1].latency

\* A band with two accepted trials, the second with a strictly smaller
\* latency, after a trial that was rejected for exceeding nothing but the
\* latency rule left a position COLD.
C4_Witness ==
    \E b \in DOMAIN bands :
        /\ Len(bands[b].accepted) >= 2
        /\ bands[b].accepted[2].latency < bands[b].accepted[1].latency
        /\ bands[b].accepted[1].dsp = numDSP
        /\ bands[b].rejected # {}

C6_TilingEnumeration ==
    (tilePc \in {"run", "done"} /\ factor >= 1 /\ factor <= tripN) =>
        /\ outerTrip * factor >= tripN
        /\ (outerTrip - 1) * factor < tripN
        /\ innerIv <= factor
        /\ \A k \in DOMAIN visited : visited[k] = k - 1
        /\ Len(visited) <= tripN
        /\ tilePc = "done" => Len(visited) = tripN

\* The enumeration has ended for a factor that does not divide the trip
\* count, so the last tile is a partial one.
C6_Witness ==
    /\ tilePc = "done"
    /\ tripN = MaxTrip - 1
    /\ factor = 2
    /\ outerTrip = 3
    /\ Len(visited) = tripN

(***************************************************************************)
(* C7: when the emitter meets a local array allocation whose type has no   *)
(* static shape, it records a structural-violation error and writes no     *)
(* declaration for that array to the output.                               *)
(***************************************************************************)
C7_DynamicAllocNotDeclared ==
    \A i \in DOMAIN prog :
        (prog[i].kind = "alloc" /\ ~hasStaticShape(prog[i].results[1])) =>
            /\ state.encounteredError
            /\ \E d \in DOMAIN state.diags : state.diags[d].op = prog[i].id
            /\ ~ \E k \in DOMAIN state.os :
                   /\ state.os[k].t = "decl"
                   /\ state.os[k].v = prog[i].results[1].id

(***************************************************************************)
(* C8: an emission run returns failure if and only if at least one         *)
(* emission error was reported during the run: a reported error is held in *)
(* the error flag, the run goes on past the erroring operation, and the    *)
(* value returned at the end is failure exactly when an error was reported.*)
(***************************************************************************)
C8_FailureIffErrorReported ==
    /\ state.diags # <<>> => state.encounteredError
    /\ state.diags # <<>> => pc \in {"body", "done"}
    /\ pc = "done" => (result = "failure" <=> state.diags # <<>>)

(***************************************************************************)
(* C9: for any operation in a block that none of the three dispatchers     *)
(* (expression, statement, hardware-IP) handles, the emitter reports an    *)
(* emission error at that operation, marks the run as failed, and          *)
(* continues emitting the following sibling operations of the block.       *)
(***************************************************************************)
C9_UnhandledOpIsErrorAndContinue ==
    \A i \in DOMAIN prog :
        (/\ ~ExprVisitor(EmptyState, prog[i]).ret
         /\ ~StmtVisitor(EmptyState, prog[i]).ret
         /\ ~IPVisitor(EmptyState, prog[i]).ret) =>
            /\ \E d \in DOMAIN state.diags : state.diags[d].op = prog[i].id
            /\ state.encounteredError
            /\ pc # "aborted"

(***************************************************************************)
(* C10: for every affine or scf counted loop marked pipeline, the line     *)
(* "#pragma HLS pipeline II=<target_ii>" is the first line written inside  *)
(* the loop body, right after the loop header and before any statement of  *)
(* the body; a loop not marked pipeline writes no pipeline directive.      *)
(***************************************************************************)
C10_PipelineFirstInBody ==
    \A i \in DOMAIN prog :
        prog[i].kind \in {"affine.for", "scf.for"} =>
            LET hdr == {k \in DOMAIN state.os :
                          /\ state.os[k].t = "info"
                          /\ state.os[k].op = prog[i].id}
                pls == {k \in DOMAIN state.os :
                          /\ state.os[k].t = "pipeline"
                          /\ state.os[k].op = prog[i].id}
            IN IF prog[i].pipeline # 0
               THEN \E k \in hdr :
                      /\ pls = {k + 2}
                      /\ state.os[k + 1].t = "indent"
                      /\ state.os[k + 2].v = prog[i].target_ii
                      /\ state.os[k + 2].txt =
                           "#pragma HLS pipeline II="
                             \o ToString(prog[i].target_ii) \o "\n"
               ELSE pls = {}

\* A finished run with a loop marked pipeline (target II 2) whose body holds
\* a statement, next to a loop that is not marked.
C10_Witness ==
    /\ pc = "done"
    /\ \E i \in DOMAIN prog :
         /\ prog[i].kind \in {"affine.for", "scf.for"}
         /\ prog[i].pipeline # 0
         /\ prog[i].target_ii = 2
         /\ i < Len(prog)
         /\ prog[i + 1].kind \in {"addf", "alloc", "constant"}
    /\ \E j \in DOMAIN prog :
         /\ prog[j].kind \in {"affine.for", "scf.for"}
         /\ prog[j].pipeline = 0

(***************************************************************************)
(* C11: for every array the emitter declares (a port of any function, top  *)
(* function or not, or a local array) whose layout partitions a dimension  *)
(* with a factor other than 1, exactly one array_partition directive is    *)
(* written per such dimension, block when the dimension's layout           *)
(* expression is a floordiv and cyclic otherwise, with the dimension's     *)
(* factor and dim counted from 1; a dimension with factor 1, and an array  *)
(* without layout map, gets no directive.                                  *)
(***************************************************************************)
C11_PartitionDirectivePerDim ==
    pc = "body" =>
      \A a \in LiveArrays : \A d \in 1..Len(a.shape) :
        LET os == state.os
            \* directives written for a that name dimension d
            dirs == {k \in 2..(Len(os) - 1) :
                       /\ os[k].t \in {"name", "decl"}
                       /\ os[k].v = a.id
                       /\ os[k - 1].txt
                            = "#pragma HLS array_partition variable="
                       /\ \E w \in {" block", " cyclic"}, f \in 0..MaxFactor :
                            os[k + 1].txt = w \o " factor=" \o ToString(f)
                                              \o " dim=" \o ToString(d)
                                              \o "\n"}
        IN IF a.factors # <<>> /\ a.factors[d] # 1
           THEN /\ Cardinality(dirs) = 1
                /\ \A k \in dirs :
                     os[k + 1].txt =
                       (IF a.block[d] THEN " block" ELSE " cyclic")
                         \o " factor=" \o ToString(a.factors[d])
                         \o " dim=" \o ToString(d) \o "\n"
           ELSE dirs = {}

(***************************************************************************)
(* C12: after the Annotator pass, every array-typed operand of every       *)
(* operation other than an array wrapper is the result of a wrapper        *)
(* operation (array wrapper or assign wrapper); each array wrapper the     *)
(* pass inserted sits immediately after the definition of the value it     *)
(* wraps (right after the defining operation; at the start of the block    *)
(* for a block argument, where only wrappers of the block's other          *)
(* arguments precede it) and is the only remaining user of that value.     *)
(***************************************************************************)
C12_ArrayOperandsWrapped ==
    annPc = "done" =>
      /\ \A i \in DOMAIN annOps :
           annOps[i].kind # "hlscpp.array" =>
             \A k \in DOMAIN annOps[i].operands :
               IsShapedType(TypeOf(annOps, annOps[i].operands[k])) =>
                 /\ ~IsBlockArgument(annOps[i].operands[k])
                 /\ DefKind(annOps, annOps[i].operands[k])
                      \in {"hlscpp.array", "hlscpp.assign"}
      /\ \A i \in DOMAIN annOps :
           (annOps[i].kind = "hlscpp.array" /\ annOps[i].id > Len(annIn)) =>
             /\ Users(annOps, annOps[i].operands[1]) = {annOps[i].id}
             /\ annOps[i].parent = DefBlock(annOps, annOps[i].operands[1])
             /\ IF IsBlockArgument(annOps[i].operands[1])
                THEN \A j \in 1..(i - 1) :
                       /\ annOps[j].kind = "hlscpp.array"
                       /\ annOps[j].id > Len(annIn)
                       /\ IsBlockArgument(annOps[j].operands[1])
                ELSE i = OpPos(annOps, annOps[i].operands[1][2]) + 1

\* A finished pass that inserted a wrapper for a block argument and one for
\* the result of an operation, both now the operands of an addf.
C12_Witness ==
    /\ annPc = "done"
    /\ \E i \in DOMAIN annOps, j \in DOMAIN annOps :
         /\ annOps[i].kind = "hlscpp.array"
         /\ annOps[i].id > Len(annIn)
         /\ IsBlockArgument(annOps[i].operands[1])
         /\ annOps[j].kind = "hlscpp.array"
         /\ annOps[j].id > Len(annIn)
         /\ ~IsBlockArgument(annOps[j].operands[1])
         /\ \E u \in DOMAIN annOps :
              /\ annOps[u].kind = "addf"
              /\ annOps[u].operands
                   = <<(<<"res", annOps[i].id>>), (<<"res", annOps[j].id>>)>>

(***************************************************************************)
(* C13: for every affine loop, the Annotator leaves a pipeline, unroll or  *)
(* flatten attribute that is already present with its existing value (at   *)
(* every point of the pass), and sets each of the three that is absent to  *)
(* false; after the pass every affine loop carries all three attributes.   *)
(***************************************************************************)
C13_LoopAttributeDefaults ==
    annPc # "idle" =>
      \A i \in DOMAIN annIn :
        annIn[i].kind = "affine.for" =>
          /\ annIn[i].pipeline # "absent" =>
               OpById(annOps, annIn[i].id).pipeline = annIn[i].pipeline
          /\ annIn[i].unroll # "absent" =>
               OpById(annOps, annIn[i].id).unroll = annIn[i].unroll
          /\ annIn[i].flatten # "absent" =>
               OpById(annOps, annIn[i].id).flatten = annIn[i].flatten
          /\ annPc = "done" =>
               /\ annIn[i].pipeline = "absent" =>
                    OpById(annOps, annIn[i].id).pipeline = "false"
               /\ annIn[i].unroll = "absent" =>
                    OpById(annOps, annIn[i].id).unroll = "false"
               /\ annIn[i].flatten = "absent" =>
                    OpById(annOps, annIn[i].id).flatten = "false"
               /\ \A j \in DOMAIN annOps :
                    annOps[j].kind = "affine.for" =>
                      /\ annOps[j].pipeline \in {"true", "false"}
                      /\ annOps[j].unroll \in {"true", "false"}
                      /\ annOps[j].flatten \in {"true", "false"}

\* A finished pass over a loop nest: the outer loop came with pipeline set
\* to true and without unroll, the inner loop without any attribute.
C13_Witness ==
    /\ annPc = "done"
    /\ \E i \in DOMAIN annIn, j \in DOMAIN annIn :
         /\ annIn[i].kind = "affine.for"
         /\ annIn[i].pipeline = "true"
         /\ annIn[i].unroll = "absent"
         /\ OpById(annOps, annIn[i].id).pipeline = "true"
         /\ OpById(annOps, annIn[i].id).unroll = "false"
         /\ annIn[j].kind = "affine.for"
         /\ annIn[j].parent = annIn[i].id
         /\ annIn[j].pipeline = "absent"
         /\ OpById(annOps, annIn[j].id).pipeline = "false"

(***************************************************************************)
(* C14: after the Annotator pass, no operand of the function's return is a *)
(* block argument or the result of a constant: each such operand has been  *)
(* replaced, at its own operand position, by the result of a distinct      *)
(* assign wrapper inserted just before the return, and every other return  *)
(* operand is left unchanged.                                              *)
(***************************************************************************)
C14_ReturnOperandsAssigned ==
    annPc = "done" =>
      LET ret == annOps[Len(annOps)]
          orig == annIn[Len(annIn)].operands
      IN /\ ret.kind = "return"
         /\ Len(ret.operands) = Len(orig)
         /\ \A k \in DOMAIN orig :
              /\ ~IsBlockArgument(ret.operands[k])
              /\ DefKind(annOps, ret.operands[k]) # "constant"
              /\ IF NeedsAssign(annIn, orig[k])
                 THEN /\ DefKind(annOps, ret.operands[k]) = "hlscpp.assign"
                      /\ ret.operands[k][2] > Len(annIn)
                      /\ \A m \in DOMAIN orig :
                           m # k => ret.operands[m] # ret.operands[k]
                      /\ \A j \in OpPos(annOps, ret.operands[k][2])
                                    ..(Len(annOps) - 1) :
                           annOps[j].kind = "hlscpp.assign"
                 ELSE ret.operands[k] = orig[k]

\* C14 as the pass has it: a returned block argument or constant is
\* replaced, at its own position, by the result of a distinct assign wrapper
\* inserted just before the return; any other returned value of array type
\* that is not already the result of a wrapper is replaced by the array
\* wrapper inserted after its definition; every remaining return operand is
\* left unchanged.
C14_ReturnOperandsAssignedOrWrapped ==
    annPc = "done" =>
      LET ret == annOps[Len(annOps)]
          orig == annIn[Len(annIn)].operands
      IN /\ ret.kind = "return"
         /\ Len(ret.operands) = Len(orig)
         /\ \A k \in DOMAIN orig :
              /\ ~IsBlockArgument(ret.operands[k])
              /\ DefKind(annOps, ret.operands[k]) # "constant"
              /\ IF NeedsAssign(annIn, orig[k])
                 THEN /\ DefKind(annOps, ret.operands[k]) = "hlscpp.assign"
                      /\ ret.operands[k][2] > Len(annIn)
                      /\ \A m \in DOMAIN orig :
                           m # k => ret.operands[m] # ret.operands[k]
                      /\ \A j \in OpPos(annOps, ret.operands[k][2])
                                    ..(Len(annOps) - 1) :
                           annOps[j].kind = "hlscpp.assign"
                 ELSE IF /\ IsShapedType(TypeOf(annIn, orig[k]))
                         /\ DefKind(annIn, orig[k])
                              \notin {"hlscpp.array", "hlscpp.assign"}
                 THEN /\ DefKind(annOps, ret.operands[k]) = "hlscpp.array"
                      /\ ret.operands[k][2] > Len(annIn)
                      /\ OpById(annOps, ret.operands[k][2]).operands
                           = <<orig[k]>>
                 ELSE ret.operands[k] = orig[k]

\* A finished pass over a function that returns a block argument next to a
\* constant, and one that returns a scalar computed in the body next to a
\* local array.
C14_Witness ==
    /\ annPc = "done"
    /\ LET orig == annIn[Len(annIn)].operands
       IN \/ /\ Len(orig) = 2
             /\ IsBlockArgument(orig[1])
             /\ ~IsBlockArgument(orig[2])
             /\ DefKind(annIn, orig[2]) = "constant"
             /\ annOps[Len(annOps) - 1].kind = "hlscpp.assign"
             /\ annOps[Len(annOps) - 2].kind = "hlscpp.assign"
          \/ /\ Len(orig) = 2
             /\ ~IsBlockArgument(orig[1])
             /\ DefKind(annIn, orig[1]) = "addf"
             /\ TypeOf(annIn, orig[1]) = "scalar"
             /\ annOps[Len(annOps)].operands[1] = orig[1]
             /\ ~IsBlockArgument(orig[2])
             /\ DefKind(annIn, orig[2]) = "alloc"

(***************************************************************************)
(* C15: for every hardware-IP primitive, the data type written into the    *)
(* emitted template is 'double' when the element type of the primitive's   *)
(* array operand is double precision and 'float' when it is single         *)
(* precision.  The first text of the template, up to the first name, holds *)
(* the data type; it is compared with that text for the wanted type.       *)
(***************************************************************************)
C15_IPDataTypeFollowsElementType ==
    \A i \in DOMAIN prog :
      (/\ prog[i].kind \in {"hlskernel.amax", "hlskernel.scal",
                            "hlskernel.gemm"} \cup OtherBlasOps
       /\ \E k \in DOMAIN state.os : state.os[k].op = prog[i].id) =>
        LET x == IF prog[i].kind = "hlskernel.amax" THEN prog[i].operands[1]
                 ELSE IF prog[i].kind = "hlskernel.scal"
                 THEN prog[i].operands[2]
                 ELSE IF prog[i].kind = "hlskernel.gemm"
                 THEN prog[i].operands[3]
                 ELSE prog[i].operands[BlasXIndex(prog[i].kind)]
            dt == IF x.elem = "f64" THEN "double" ELSE "float"
            stream == "  hls::stream<typename WideType<" \o dt
            first == CHOOSE k \in DOMAIN state.os :
                       /\ state.os[k].op = prog[i].id
                       /\ \A j \in 1..(k - 1) : state.os[j].op # prog[i].id
        IN state.os[first].txt =
             "  #pragma HLS DATAFLOW\n" \o
             (CASE prog[i].kind = "hlskernel.amax" ->
                     "  " \o dt \o " l_res;\n" \o stream
                       \o ", 1 << 2>::t_TypeInt> l_str;\n  readVec2Stream<"
                       \o dt \o ", 1 << 2>("
                [] prog[i].kind = "hlskernel.scal" ->
                     stream \o ", 4>::t_TypeInt> l_strX;\n" \o stream
                       \o ", 4>::t_TypeInt> l_strR;\n\n  readVec2Stream<"
                       \o dt \o ", 4>("
                [] prog[i].kind = "hlskernel.gemm" ->
                     stream \o ", 4>::t_TypeInt> l_strA;\n" \o stream
                       \o ", 4>::t_TypeInt> l_strB;\n" \o stream
                       \o ", 4>::t_TypeInt> l_strC;\n" \o stream
                       \o ", 4>::t_TypeInt> l_strSum;\n\n  gemmMatAMover<"
                       \o dt \o ", 4>("
                [] OTHER ->
                     stream \o ", 4>::t_TypeInt> l_strX;\n  readVec2Stream<"
                       \o dt \o ", 4>(")

(***************************************************************************)
(* C16: every primitive for which the emitter defines an IP emitter (amax, *)
(* amin, asum, axpy, dot, gbmv, gemm, gemv, nrm2, scal, swap, symv, trmv,  *)
(* fft, psqrt and the general ip call) is routed by block emission to that *)
(* emitter, which writes its template, and the operation counts as emitted *)
(* without error: no diagnostic names it and the run does not end in it.   *)
(***************************************************************************)
C16_IPPrimitivesRouted ==
    \A i \in DOMAIN prog :
      prog[i].kind \in {"hlskernel.amax", "hlskernel.scal", "hlskernel.gemm",
                        "hlskernel.fft", "hlskernel.psqrt", "hlskernel.ip"}
                         \cup OtherBlasOps =>
        /\ \E k \in DOMAIN state.os : state.os[k].op = prog[i].id
        /\ \A d \in DOMAIN state.diags : state.diags[d].op # prog[i].id
        /\ ~(pc = "aborted" /\ i = Len(prog))

(***************************************************************************)
(* C17: in every reachable state of a band's search, each position's tile  *)
(* size is at least 1 and at most that position's trip count; a position   *)
(* whose tile size has reached its trip count is FROZEN, and a FROZEN      *)
(* position is never selected for growth again (it stays FROZEN, its tile  *)
(* size stays, and no trial rejects it).                                   *)
(***************************************************************************)
C17_TileSizeReachedIsFrozen ==
    /\ [](\A b \in DOMAIN bands : \A p \in DOMAIN bands[b].tileSizes :
            /\ bands[b].tileSizes[p] >= 1
            /\ bands[b].tileSizes[p] <= bands[b].tripCounts[p]
            /\ bands[b].tileSizes[p] = bands[b].tripCounts[p] =>
                 bands[b].bandState[p] = FROZEN)
    /\ [][\A b \in DOMAIN bands : \A p \in DOMAIN bands[b].tileSizes :
            bands[b].bandState[p] = FROZEN =>
              /\ bands'[b].bandState[p] = FROZEN
              /\ bands'[b].tileSizes[p] = bands[b].tileSizes[p]
              /\ p \notin bands'[b].rejected \ bands[b].rejected]_vars

\* C17 as the search has it: the tile size of a position stays between 1
\* and the trip count; a position whose tile size was grown to its trip
\* count is FROZEN (a position of trip count 1 starts COLD with tile size 1
\* and only goes FROZEN or stays); a FROZEN position is never selected for
\* growth again.
C17_TileSizeGrownToTripCountIsFrozen ==
    /\ [](\A b \in DOMAIN bands : \A p \in DOMAIN bands[b].tileSizes :
            /\ bands[b].tileSizes[p] >= 1
            /\ bands[b].tileSizes[p] <= bands[b].tripCounts[p]
            /\ (/\ bands[b].tileSizes[p] = bands[b].tripCounts[p]
                /\ bands[b].tileSizes[p] > 1) =>
                 bands[b].bandState[p] = FROZEN
            /\ bands[b].bandState[p] = FROZEN =>
                 bands[b].tileSizes[p] = bands[b].tripCounts[p])
    /\ [][\A b \in DOMAIN bands : \A p \in DOMAIN bands[b].tileSizes :
            bands[b].bandState[p] = FROZEN =>
              /\ bands'[b].bandState[p] = FROZEN
              /\ bands'[b].tileSizes[p] = bands[b].tileSizes[p]
              /\ p \notin bands'[b].rejected \ bands[b].rejected]_vars

\* A band of two loops of trip count MaxTripCount: one position grown to
\* the trip count and FROZEN, the other grown once and HOT, then a trial
\* on it rejected.
C17_Witness ==
    \E b \in DOMAIN bands :
      \E p \in DOMAIN bands[b].tileSizes, q \in DOMAIN bands[b].tileSizes :
        /\ bands[b].tripCounts[p] = MaxTripCount
        /\ bands[b].tileSizes[p] = MaxTripCount
        /\ bands[b].bandState[p] = FROZEN
        /\ bands[b].tripCounts[q] = MaxTripCount
        /\ bands[b].tileSizes[q] = 2
        /\ bands[b].bandState[q] = COLD
        /\ q \in bands[b].rejected

(***************************************************************************)
(* C18: a trial is accepted iff its estimated DSP usage is within numDSP   *)
(* and its latency improves, or ties with no DSP regression; after a       *)
(* rejected trial (one whose tiling or pipelining failed included) the     *)
(* tile-size vector equals its value before the trial, the grown position  *)
(* is COLD, and the search goes on with other positions: the rejected      *)
(* position is not tried again at these tile sizes and the band's search   *)
(* has not stopped while another position can grow.                        *)
(***************************************************************************)
C18_TrialAcceptedIffWithinBudget ==
    \A b \in DOMAIN bands :
      LET t == bands[b].last IN
        t.loc # 0 =>
          /\ bands[b].tileSizes # t.before <=>
               /\ t.ok
               /\ t.est.dsp <= numDSP
               /\ \/ t.est.latency < t.best.latency
                  \/ /\ t.est.latency = t.best.latency
                     /\ t.est.dsp <= t.best.dsp
          /\ bands[b].tileSizes # t.before =>
               /\ bands[b].best = t.est
               /\ bands[b].tileSizes =
                    incrTileSizeAtLoc(t.before, bands[b].tripCounts, t.loc)
          /\ bands[b].tileSizes = t.before =>
               /\ bands[b].bandState[t.loc] = COLD
               /\ bands[b].best = t.best
               /\ t.loc \notin Growable(bands[b])
               /\ Growable(bands[b]) # {} => ~BandStopped(bands[b])

\* After an accepted trial, a trial on another position whose tiling failed
\* although its estimate was within budget and better: rejected, and the
\* position grown before can still grow.
C18_Witness ==
    \E b \in DOMAIN bands :
      LET t == bands[b].last IN
        /\ t.loc # 0
        /\ ~t.ok
        /\ t.est.dsp <= numDSP
        /\ t.est.latency < t.best.latency
        /\ bands[b].accepted # <<>>
        /\ bands[b].tileSizes = t.before
        /\ bands[b].bandState[t.loc] = COLD
        /\ Growable(bands[b]) # {}

\* The text addName gives for table size k, plain or as a pointer.
NumberedName(name, k) == name \in {"val" \o ToString(k), "*val" \o ToString(k)}

\* A value that is the result of a tensor_to_memref of the program walked
\* up to the end of the step: the one kind of value addAlias enters.
AliasedResult(v) ==
    \E i \in DOMAIN prog' :
      /\ prog'[i].kind = "tensor_to_memref"
      /\ prog'[i].results[1] = v

(***************************************************************************)
(* C19: each value named by addName receives the text "val<N>" (with "*"   *)
(* in front for a pointer) where N is the number of entries of the name    *)
(* table at that moment; N strictly increases over successive namings in   *)
(* one run, and an entry of the name table is never removed or changed     *)
(* once written.  Over one step of the emitter: every entry of before is   *)
(* still there with the same text; every value entered in the step, other  *)
(* than a tensor_to_memref result entered by addAlias, has the text of a   *)
(* number from the table's size before the step up to its size after it;   *)
(* no two of them have the same number.                                    *)
(***************************************************************************)
C19_NamesCountEntries ==
    [][LET old == state.nameTable
           new == state'.nameTable
           lo == Cardinality(DOMAIN state.nameTable)
           hi == Cardinality(DOMAIN state'.nameTable) - 1
       IN /\ \A v \in DOMAIN old : v \in DOMAIN new /\ new[v] = old[v]
          /\ \A v \in (DOMAIN new) \ (DOMAIN old) :
               ~AliasedResult(v) =>
                 \E k \in lo..hi : NumberedName(new[v], k)
          /\ \A v, w \in (DOMAIN new) \ (DOMAIN old) :
               (v # w /\ ~AliasedResult(v) /\ ~AliasedResult(w)) =>
                 ~\E k \in lo..hi :
                    NumberedName(new[v], k) /\ NumberedName(new[w], k)]_vars

\* The text the emitter wrote on behalf of operation opid in the tokens lo
\* to hi of the output, indentation and end-of-line comments left out.
RECURSIVE RenderedBy(_, _, _, _)
RenderedBy(os, lo, hi, opid) ==
    IF lo > hi THEN ""
    ELSE IF lo = hi
    THEN (IF os[lo].op = opid /\ os[lo].t \in {"text", "name", "decl"}
          THEN os[lo].txt ELSE "")
    ELSE RenderedBy(os, lo, (lo + hi) \div 2, opid)
           \o RenderedBy(os, (lo + hi) \div 2 + 1, hi, opid)

\* "iv == 0" for every induction variable, joined by " && ".
RECURSIVE EveryIvIsZero(_, _)
EveryIvIsZero(ivs, i) ==
    IF i > Len(ivs) THEN ""
    ELSE getName(state, ivs[i]) \o " == 0"
           \o (IF i < Len(ivs) THEN " && " ELSE "")
           \o EveryIvIsZero(ivs, i + 1)

\* The first arm: the i-th yielded value assigned to the i-th result.
RECURSIVE AssignArm(_, _, _)
AssignArm(results, yielded, i) ==
    IF i > Len(results) THEN ""
    ELSE getName(state, results[i]) \o " = " \o getName(state, yielded[i])
           \o ";" \o AssignArm(results, yielded, i + 1)

\* The operator of a reduction kind applied to result r and yielded value v.
Combine(kind, r, v) ==
    CASE kind \in {"addf", "addi"} -> r \o " += " \o v
      [] kind = "assign" -> r \o " = " \o v
      [] kind \in {"maxf", "maxs", "maxu"} ->
           r \o " = max(" \o r \o ", " \o v \o ")"
      [] kind \in {"minf", "mins", "minu"} ->
           r \o " = min(" \o r \o ", " \o v \o ")"
      [] kind \in {"mulf", "muli"} -> r \o " *= " \o v

\* The else arm: the i-th yielded value combined into the i-th result with
\* the operator of the i-th reduction kind.
RECURSIVE CombineArm(_, _, _, _)
CombineArm(results, kinds, yielded, i) ==
    IF i > Len(results) THEN ""
    ELSE Combine(kinds[i], getName(state, results[i]),
                 getName(state, yielded[i]))
           \o ";" \o CombineArm(results, kinds, yielded, i + 1)

(***************************************************************************)
(* C20: for a parallel-reduction construct, the yield is rendered as an    *)
(* "if (every induction variable == 0)" arm that assigns each yielded      *)
(* value to its result and an "else" arm that combines it into the result  *)
(* with the operator of that result's reduction kind: "+=" for sum, "="    *)
(* for assign, "= max(result, v)" for max, "= min(result, v)" for min,     *)
(* "*=" for product, identically for float and integer kinds; the i-th     *)
(* result is always paired with the i-th yielded operand.                  *)
(***************************************************************************)
C20_ParallelYieldRendering ==
    \A k \in DOMAIN prog :
      (prog[k].kind = "affine.yield" /\ prog[k].operands # <<>>) =>
        RenderedBy(state.os, 1, Len(state.os), prog[k].id) =
          "if (" \o EveryIvIsZero(prog[k].parent.ivs, 1) \o ") {\n"
            \o AssignArm(prog[k].parent.results, prog[k].operands, 1)
            \o "} else {\n"
            \o CombineArm(prog[k].parent.results, prog[k].parent.reductions,
                          prog[k].operands, 1)
            \o "}\n"

\* A finished run whose parallel operation has two induction variables and
\* two results, an integer product and a float maximum, the yield returning
\* two different arguments.
C20_Witness ==
    /\ pc = "done"
    /\ result = "success"
    /\ \E k \in DOMAIN prog :
         /\ prog[k].kind = "affine.yield"
         /\ Len(prog[k].operands) = 2
         /\ Len(prog[k].parent.ivs) = 2
         /\ prog[k].parent.reductions = <<"muli", "maxf">>
         /\ prog[k].operands[1] = ParArgs[4]
         /\ prog[k].operands[2] = ParArgs[1]

\* The positions of the output at which value id is declared.
DeclsOf(id) ==
    {j \in DOMAIN state.os : state.os[j].t = "decl" /\ state.os[j].v = id}

\* The statements "res = operand" written on behalf of operation opid.
AssignsBy(opid, res, operand) ==
    {j \in 1..(Len(state.os) - 2) :
       /\ state.os[j].op = opid
       /\ state.os[j].t = "name"
       /\ state.os[j].v = res.id
       /\ state.os[j + 1].txt = " = "
       /\ state.os[j + 2].t = "name"
       /\ state.os[j + 2].v = operand.id
       /\ state.os[j + 3].txt = ";"}

(***************************************************************************)
(* C21: for a conditional (affine or scf if) whose arms yield values, each *)
(* result variable is declared exactly once, on a line before the "if",    *)
(* and is assigned, not re-declared, inside every arm that yields; the     *)
(* i-th result is assigned from the i-th yielded operand.                  *)
(***************************************************************************)
C21_IfResultsDeclaredBeforeAssignedInArms ==
    \A k \in DOMAIN prog :
      prog[k].kind \in {"scf.if", "affine.if"} =>
        \A i \in DOMAIN prog[k].results :
          /\ Cardinality(DeclsOf(prog[k].results[i].id)) = 1
          /\ \A j \in DeclsOf(prog[k].results[i].id) :
               \E n \in DOMAIN state.os, m \in DOMAIN state.os :
                 /\ j < n /\ n < m
                 /\ state.os[n].txt = ";\n"
                 /\ state.os[m].op = prog[k].id
                 /\ state.os[m].txt = "if ("
          /\ \A y \in DOMAIN prog :
               (/\ prog[y].kind \in {"scf.yield", "affine.yield"}
                /\ prog[y].operands # <<>>
                /\ prog[y].parent.id = prog[k].id) =>
                 /\ Cardinality(AssignsBy(prog[y].id, prog[k].results[i],
                                          prog[y].operands[i])) = 1
                 /\ \A j \in DOMAIN state.os :
                      (state.os[j].op = prog[y].id
                         /\ state.os[j].v = prog[k].results[i].id) =>
                        state.os[j].t = "name"

\* A finished run with an affine.if of two results, a scalar and a
\* statically shaped array, whose arms yield different scalars, one of them
\* computed inside the arm.
C21_Witness ==
    /\ pc = "done"
    /\ \E k \in DOMAIN prog, y \in DOMAIN prog, z \in DOMAIN prog :
         /\ prog[k].kind = "affine.if"
         /\ Len(prog[k].results) = 2
         /\ prog[k].results[1].shape = <<>>
         /\ prog[k].results[2].shape = <<16>>
         /\ y < z
         /\ prog[y].kind = "affine.yield"
         /\ prog[z].kind = "affine.yield"
         /\ prog[y].operands # <<>>
         /\ prog[z].operands # <<>>
         /\ prog[y].operands[1] # prog[z].operands[1]
         /\ ~prog[y].operands[1].arg

\* "for (int idxI = 0; idxI < extent; ++idxI) {" for the dimensions from i
\* on, outermost first.
RECURSIVE IndexLoops(_, _)
IndexLoops(shape, i) ==
    IF i >= Len(shape) THEN ""
    ELSE "for (int idx" \o ToString(i) \o " = 0; idx" \o ToString(i)
           \o " < " \o ToString(shape[i + 1]) \o "; ++idx" \o ToString(i)
           \o ") {\n" \o IndexLoops(shape, i + 1)

\* "[idx0]..[idx(r-1)]"
RECURSIVE Subscripts(_, _)
Subscripts(i, r) ==
    IF i >= r THEN ""
    ELSE "[idx" \o ToString(i) \o "]" \o Subscripts(i + 1, r)

\* r closing braces, one per line.
RECURSIVE ClosedLoops(_)
ClosedLoops(r) == IF r = 0 THEN "" ELSE "}\n" \o ClosedLoops(r - 1)

\* Value v as an operand of a statement inside r index loops: subscripted
\* when it is an array.
Element(v, r) ==
    getName(state, v) \o (IF isShaped(v) THEN Subscripts(0, r) ELSE "")

\* The right-hand side of the element-wise statement of op.
ElementwiseRhs(op, r) ==
    CASE op.kind = "addf" ->
           Element(op.operands[1], r) \o " + " \o Element(op.operands[2], r)
      [] op.kind = "mulf" ->
           Element(op.operands[1], r) \o " * " \o Element(op.operands[2], r)
      [] op.kind = "absf" -> "abs(" \o Element(op.operands[1], r) \o ")"
      [] op.kind = "select" ->
           Element(op.operands[1], r) \o " ? " \o Element(op.operands[2], r)
             \o " : " \o Element(op.operands[3], r)

\* The left-hand side: an array is declared on a line of its own ahead of
\* the loops, a scalar in the statement itself.
ElementwiseLhs(v, r) ==
    IF isShaped(v)
    THEN "float " \o getName(state, v) \o ShapeText(v.shape, 1) \o ";\n"
           \o IndexLoops(v.shape, 0) \o Element(v, r)
    ELSE "float " \o getName(state, v)

ScalarConstants ==
    {prog[k].results[1] :
       k \in {j \in DOMAIN prog : /\ prog[j].kind = "constant"
                                  /\ prog[j].results[1].const}}

\* The literal of a scalar constant: the number for a finite one, one of
\* the two infinities for a float that is not finite.
IsLiteralOf(txt, c) ==
    CASE c.attr \in {"inf", "-inf", "nan"} ->
           txt \in {"INFINITY", "-INFINITY"}
      [] c.attr = "float" -> txt = ToString(c.cval) \o ".000000"
      [] OTHER -> txt = ToString(c.cval)

(***************************************************************************)
(* C23: a scalar constant (float, integer or bool) is always rendered as   *)
(* its literal and never enters the name table: in every reachable state   *)
(* the name table holds no scalar-constant value, no output token declares *)
(* one, and every output token that stands for one is its literal, which   *)
(* for a non-finite float is INFINITY or -INFINITY.                        *)
(***************************************************************************)
C23_ScalarConstantsAreLiterals ==
    /\ \A v \in DOMAIN state.nameTable : ~v.const
    /\ \A c \in ScalarConstants :
         \A j \in DOMAIN state.os :
           (state.os[j].t \in {"name", "decl"} /\ state.os[j].v = c.id) =>
             /\ state.os[j].t = "name"
             /\ IsLiteralOf(state.os[j].txt, c)

\* A finished run in which a non-finite float constant, a negative finite
\* one and a bool constant were all used as operands.
C23_Witness ==
    /\ pc = "done"
    /\ \E c \in ScalarConstants, d \in ScalarConstants :
         /\ c.attr \in {"inf", "-inf", "nan"}
         /\ d.attr \in {"float", "bool"}
         /\ \E j \in DOMAIN state.os, k \in DOMAIN state.os :
              /\ state.os[j].t = "name" /\ state.os[j].v = c.id
              /\ state.os[k].t = "name" /\ state.os[k].v = d.id

\* The names handed to readVec2Stream and to writeStream2Vec in the
\* fragment of swap operation op: the first two and the last two names.
NamesOf(opid) ==
    {j \in DOMAIN state.os : state.os[j].op = opid /\ state.os[j].t = "name"}

NthNameOf(opid, n) ==
    CHOOSE j \in NamesOf(opid) :
      Cardinality({i \in NamesOf(opid) : i < j}) = n - 1

(***************************************************************************)
(* C24: for the swap primitive with its operands in the order of the       *)
(* repository sample, (x, y, xRes, yRes), the emitted fragment streams x   *)
(* and y in as the two inputs and writes the two results back into xRes    *)
(* and yRes: the two names read are operands 1 and 2, the two names        *)
(* written are operands 3 and 4.                                           *)
(***************************************************************************)
C24_SwapReadsInputsWritesResults ==
    \A k \in DOMAIN prog :
      prog[k].kind = "hlskernel.swap" =>
        /\ Cardinality(NamesOf(prog[k].id)) = 4
        /\ state.os[NthNameOf(prog[k].id, 1)].v = prog[k].operands[1].id
        /\ state.os[NthNameOf(prog[k].id, 2)].v = prog[k].operands[2].id
        /\ state.os[NthNameOf(prog[k].id, 3)].v = prog[k].operands[3].id
        /\ state.os[NthNameOf(prog[k].id, 4)].v = prog[k].operands[4].id

\* What the constructs open at a point of the walk have added to the
\* indentation counter: 2 for the function body, for a loop body and for
\* an arm of a conditional, 2 per dimension for a parallel loop nest.
RECURSIVE OpenIndent(_, _)
OpenIndent(frames, i) ==
    IF i > Len(frames) THEN 0
    ELSE (IF frames[i].kind = "affine.parallel"
          THEN 2 * Len(prog[frames[i].op].ivs) ELSE 2)
           + OpenIndent(frames, i + 1)

(***************************************************************************)
(* C25: the indentation counter is balanced: between two operations of a   *)
(* block it holds exactly what the enclosing open constructs added, so the *)
(* emission of an operation, a block or a function leaves it as it found   *)
(* it, on error paths too (array of dynamic shape, unsupported operation); *)
(* it never goes below zero, neither between operations nor where an       *)
(* indentation is written; it is zero when the emission of the module ends.*)
(***************************************************************************)
C25_IndentBalanced ==
    /\ pc = "body" => state.currentIndent = OpenIndent(stack, 1)
    /\ pc \in {"module", "done"} => state.currentIndent = 0
    /\ state.currentIndent >= 0
    /\ \A j \in DOMAIN state.os :
         state.os[j].t = "indent" => state.os[j].v >= 0

\* A finished run that reported an array of dynamic shape allocated inside
\* a loop, after the loop was closed.
C25_Witness ==
    /\ pc = "done"
    /\ state.encounteredError
    /\ \E k \in DOMAIN prog, j \in DOMAIN prog :
         /\ k < j
         /\ prog[k].kind \in {"affine.for", "scf.for"}
         /\ prog[j].kind = "alloc"
         /\ ~hasStaticShape(prog[j].results[1])
         /\ prog[j + 1].kind \in {"affine.yield", "scf.yield"}

\* The tokens of the expression written for the affine.apply opid: what
\* stands between "result = " and ";".
TokensOf(opid) == SelectSeq(state.os, LAMBDA t : t.op = opid)

ExprTokens(opid) == SubSeq(TokensOf(opid), 4, Len(TokensOf(opid)) - 2)

\* Opened minus closed parentheses among the first n tokens.
ParenDepth(ts, n) ==
    Cardinality({j \in 1..n : ts[j].t = "text" /\ ts[j].txt = "("})
      - Cardinality({j \in 1..n : ts[j].t = "text" /\ ts[j].txt = ")"})

(***************************************************************************)
(* C26: for every affine expression tree (add, mul, mod, floordiv, ceildiv *)
(* over constants, dimensions and symbols) the text the affine expression  *)
(* emitter writes has balanced parentheses: no prefix closes more than it  *)
(* has opened and the whole text closes all it has opened.                 *)
(***************************************************************************)
C26_AffineTextBalanced ==
    \A k \in DOMAIN prog :
      prog[k].kind = "affine.apply" =>
        /\ \A n \in 1..Len(ExprTokens(prog[k].id)) :
             ParenDepth(ExprTokens(prog[k].id), n) >= 0
        /\ ParenDepth(ExprTokens(prog[k].id),
                      Len(ExprTokens(prog[k].id))) = 0

\* C integer division and remainder: the quotient truncated toward zero,
\* the remainder with the sign of the dividend.
Abs(a) == IF a < 0 THEN -a ELSE a

CDiv(a, b) ==
    IF (a < 0) = (b < 0) THEN Abs(a) \div Abs(b) ELSE -(Abs(a) \div Abs(b))

CRem(a, b) == a - b * CDiv(a, b)

COperators == {" + ", " - ", " * ", " / ", " % "}

ApplyC(syntax, a, b) ==
    CASE syntax = " + " -> a + b
      [] syntax = " - " -> a - b
      [] syntax = " * " -> a * b
      [] syntax = " / " -> CDiv(a, b)
      [] syntax = " % " -> CRem(a, b)

\* The outcome of reading an expression from a token sequence: ok, its
\* value and the position after it.
Malformed == [ok |-> FALSE, val |-> 0, next |-> 0]

Parsed(val, next) == [ok |-> TRUE, val |-> val, next |-> next]

\* "(" "-" operand ")"
Negated(ts, r) ==
    IF r.ok /\ r.next <= Len(ts) /\ ts[r.next].txt = ")"
    THEN Parsed(-r.val, r.next + 1) ELSE Malformed

Combined(syntax, a, r) ==
    IF r.ok THEN Parsed(ApplyC(syntax, a, r.val), r.next) ELSE Malformed

\* A C reading of the emitter's text under the values env of the operands:
\* an operand is a number, a name or a parenthesised group; inside one pair
\* of parentheses the emitter writes one operator, or the chain "+ ... -",
\* both of which C evaluates from left to right.
RECURSIVE ParseOperand(_, _, _)
RECURSIVE ParseGroup(_, _, _)
ParseOperand(ts, i, env) ==
    IF i > Len(ts) THEN Malformed
    ELSE IF ts[i].t = "num" THEN Parsed(ts[i].v, i + 1)
    ELSE IF ts[i].t = "name" THEN Parsed(env[ts[i].v], i + 1)
    ELSE IF ts[i].txt # "(" THEN Malformed
    ELSE IF i < Len(ts) /\ ts[i + 1].t = "text" /\ ts[i + 1].txt = "-"
    THEN Negated(ts, ParseOperand(ts, i + 2, env))
    ELSE ParseGroup(ts, ParseOperand(ts, i + 1, env), env)

ParseGroup(ts, acc, env) ==
    IF ~acc.ok \/ acc.next > Len(ts) THEN Malformed
    ELSE IF ts[acc.next].t # "text" THEN Malformed
    ELSE IF ts[acc.next].txt = ")" THEN Parsed(acc.val, acc.next + 1)
    ELSE IF ts[acc.next].txt \in COperators
    THEN ParseGroup(ts,
                    Combined(ts[acc.next].txt, acc.val,
                             ParseOperand(ts, acc.next + 1, env)),
                    env)
    ELSE Malformed

\* The whole token sequence read as one C expression.
WholeExpr(ts, r) == IF r.ok /\ r.next = Len(ts) + 1 THEN r ELSE Malformed

CValue(ts, env) == WholeExpr(ts, ParseOperand(ts, 1, env))

\* The value of an affine expression: floordiv rounds down, mod is never
\* negative, ceildiv rounds up.
RECURSIVE AffineValue(_, _, _, _)
AffineValue(expr, numDim, operands, env) ==
    CASE expr.k = "const" -> expr.v
      [] expr.k = "dim" -> env[operands[expr.pos + 1].id]
      [] expr.k = "sym" -> env[operands[numDim + expr.pos + 1].id]
      [] expr.k = "add" ->
           AffineValue(expr.lhs, numDim, operands, env)
             + AffineValue(expr.rhs, numDim, operands, env)
      [] expr.k = "mul" ->
           AffineValue(expr.lhs, numDim, operands, env)
             * AffineValue(expr.rhs, numDim, operands, env)
      [] expr.k = "mod" ->
           AffineValue(expr.lhs, numDim, operands, env)
             % AffineValue(expr.rhs, numDim, operands, env)
      [] expr.k = "floordiv" ->
           AffineValue(expr.lhs, numDim, operands, env)
             \div AffineValue(expr.rhs, numDim, operands, env)
      [] expr.k = "ceildiv" ->
           -((-AffineValue(expr.lhs, numDim, operands, env))
               \div AffineValue(expr.rhs, numDim, operands, env))

\* The values given to the operands of an affine.apply.
OperandValues == -2..2

(***************************************************************************)
(* C27: for every affine expression and every assignment of integers to    *)
(* its dimensions and symbols, negative values included, the rendered text *)
(* is a C expression whose value under C integer semantics ("/" truncating *)
(* toward zero, "%" with the sign of the dividend) equals the value of the *)
(* affine expression (floordiv rounding down, mod non-negative, ceildiv    *)
(* rounding up), the rewrites of "x * -1", "x + negative constant" and     *)
(* "x + y * -1" included.                                                  *)
(***************************************************************************)
C27_AffineTextEvaluatesToAffineValue ==
    \A k \in DOMAIN prog :
      prog[k].kind = "affine.apply" =>
        \A env \in [{prog[k].operands[i].id : i \in 1..3} -> OperandValues] :
          /\ CValue(ExprTokens(prog[k].id), env).ok
          /\ CValue(ExprTokens(prog[k].id), env).val =
               AffineValue(prog[k].map, prog[k].numDims, prog[k].operands,
                           env)

(***************************************************************************)
(* C29: every kind of operation the Annotator inserts, the array wrapper   *)
(* and the assign wrapper, is handled by one of the emitter's dispatchers: *)
(* the emission of a wrapper reports no diagnostic on it and does not end  *)
(* the process in it.                                                      *)
(***************************************************************************)
C29_InsertedWrappersAreEmitted ==
    \A k \in DOMAIN prog :
      prog[k].kind \in {"hlscpp.array", "hlscpp.assign"} =>
        /\ \A d \in DOMAIN state.diags : state.diags[d].op # prog[k].id
        /\ ~(pc = "aborted" /\ k = Len(prog))


(***************************************************************************)
(* C28: after the Annotator pass every function's dataflow attribute is    *)
(* false whatever its value was before the pass (absent, true or false);   *)
(* unlike the pipeline, unroll and flatten attributes of a loop, which     *)
(* keep a value they already have, a dataflow value set before the pass    *)
(* is not kept.                                                            *)
(***************************************************************************)
C28_DataflowAlwaysFalse ==
    annPc \in {"walk", "done"} =>
      /\ annDataflow = "false"
      /\ \A i \in DOMAIN annIn :
           (annIn[i].kind = "affine.for" /\ annIn[i].pipeline = "true") =>
             OpById(annOps, annIn[i].id).pipeline = "true"

\* A finished pass over a function that came with dataflow set to true and
\* holds a loop that came with pipeline set to true: the loop's value is
\* kept, the function's is not.
C28_Witness ==
    /\ annPc = "done"
    /\ annDataflowIn = "true"
    /\ annDataflow = "false"
    /\ \E i \in DOMAIN annIn :
         /\ annIn[i].kind = "affine.for"
         /\ annIn[i].pipeline = "true"
         /\ OpById(annOps, annIn[i].id).pipeline = "true"

\* The array wrappers the current run has created.
InsertedWrappers ==
    {i \in DOMAIN annOps :
       annOps[i].kind = "hlscpp.array" /\ annOps[i].id > Len(annIn)}

(***************************************************************************)
(* C30: the Annotator is idempotent.  Within one run each array value gets *)
(* at most one array wrapper, however many operations use it and however   *)
(* often one operation uses it; no operand of an array wrapper is wrapped  *)
(* by the run (no array wrapper ends up with the result of a wrapper the   *)
(* run created as its operand); and a second run on the output of the      *)
(* first inserts no operation and changes no attribute.                    *)
(***************************************************************************)
C30_AnnotatorIdempotent ==
    /\ \A i \in InsertedWrappers, j \in InsertedWrappers :
         annOps[i].operands = annOps[j].operands => i = j
    /\ \A i \in DOMAIN annOps :
         annOps[i].kind = "hlscpp.array" =>
           \A j \in InsertedWrappers :
             annOps[i].operands[1] # <<"res", annOps[j].id>>
    /\ annRun > 1 =>
         /\ annOps = annIn
         /\ annDataflow = annDataflowIn

====
